---- MODULE Spec2Model ----
(***************************************************************************)
(* Verification model of the Dolphin audio mixer (AudioCommon/Mixer.cpp),  *)
(* its sample FIFOs and the backend callbacks that pull from it.           *)
(*                                                                         *)
(* Numbers.  Ring indices are u32 counters of shorts; the model keeps the  *)
(* modular arithmetic but scales the word to U32Mod, a multiple of the     *)
(* ring size exactly as 2^32 is.  Rates, speeds and fract are doubles in   *)
(* the code; the model keeps them as exact multiples of 1/FD.              *)
(***************************************************************************)
EXTENDS Integers, Naturals, Sequences, FiniteSets, TLC

\* ---- bounds of the model ------------------------------------------------
LogMaxSamples == 2     \* MAX_SAMPLES = 2^LogMaxSamples frames per ring
FD == 2                \* fract, rates and speeds are multiples of 1/FD
MaxN == 3              \* largest num_samples of one Mix call
MaxPush == 3           \* largest num_samples of one push
MaxLatency == 4        \* MAIN_AUDIO_MIXER_MAX_LATENCY, in output frame times
MaxTolerance == 2      \* the positive m_audio_emu_speed_tolerance tried

\* ---- program constants --------------------------------------------------
NC == 2                \* channels per frame (interleaved stereo)
INTERP_SAMPLES == 3    \* frames kept back for the cubic interpolator

MAX_SAMPLES == 2 ^ LogMaxSamples
INDEX_MASK == MAX_SAMPLES * NC - 1
U32Mod == 2 * (INDEX_MASK + 1)

Fifos == {"dma", "streaming", "wiimote"}
Slots == 0 .. INDEX_MASK
NoFract == 0 - FD                      \* the sentinel fract = -1.0
InRates == {FD \div 2, FD}             \* m_input_sample_rate / m_sample_rate
Speeds == {FD, 2 * FD}                 \* target speeds the mixer can pick

VARIABLES
  m_indexW,               \* [Fifos -> u32] producer counter (shorts)
  m_indexR,               \* [Fifos -> u32] consumer counter (shorts)
  m_fract,                \* [Fifos -> NoFract or 0..FD-1]
  m_backwards_indexR,     \* [Fifos -> u32]
  m_backwards_fract,      \* [Fifos -> NoFract or 0..FD]
  m_last_output_samples,  \* [Fifos -> <<left, right>>]
  m_buffer,               \* [Fifos -> [Slots -> tag of the short stored]]
  m_input_sample_rate,    \* [Fifos -> InRates]
  m_currently_pushed,     \* [Fifos -> BOOLEAN]
  m_last_push_timer,      \* [Fifos -> Int]
  m_target_speed,         \* Mixer::m_target_speed, in 1/FD
  conv_saturates,         \* build: out-of-range double -> u32 saturates
  fifo_under_test,        \* the FIFO the class-level specification drives
  last_mix,               \* summary of the last MixerFifo::Mix on it
  paused,                 \* m_dma_speed.IsPaused()
  m_behind_target_speed,
  m_latency_catching_up,
  m_stretching,
  m_time_behind_target_speed,  \* in time units, see TimeOf
  m_time_at_custom_speed, \* 0, or 1 for any positive time
  m_stereo,               \* CubebStream::m_stereo
  audio_pc,               \* where the audio callback thread is
  pending,                \* result of the callback that is at OSD::AddMessage
  out,                    \* frames the backend got from the last callback
  mix_return,             \* value the last Mixer::Mix returned
  callbacks,              \* number of backend callbacks made so far
  s_messages_mutex,       \* holder of OSD's s_messages_mutex
  s_messages,             \* texts in OSD's s_messages
  pc,                     \* [Threads -> step of the producer thread]
  locals,                 \* [Threads -> locals of its PushSamples call]
  history,                \* what the Mix calls so far produced, for the properties
  cubeb,                  \* the CubebStream backend object and its stream
  wave,                   \* the WaveFileWriter object and the files it wrote
  mixed,                  \* one short of an output buffer and what was added to it
  policy,                 \* the settings Mixer::Mix reads and what its last call decided
  speaker,                \* the remote speaker and its pushes since it became active
  pulse,                  \* the PulseAudio backend object and the buffers it submitted
  volumes,                \* m_lVolume and m_rVolume of each FIFO and the last call that set them
  ciface                  \* the ControllerInterface, its device list and the threads in it

fifo_vars == <<m_indexW, m_indexR, m_fract, m_backwards_indexR, m_backwards_fract,
               m_last_output_samples, m_buffer, m_input_sample_rate,
               m_currently_pushed, m_last_push_timer>>
mixer_vars == <<paused, m_behind_target_speed, m_latency_catching_up, m_stretching,
                m_time_behind_target_speed, m_time_at_custom_speed, m_stereo>>
callback_vars == <<audio_pc, pending, out, mix_return, callbacks>>
osd_vars == <<s_messages_mutex, s_messages>>
thread_vars == <<pc, locals>>
part_vars == <<history, cubeb, wave, mixed, policy, speaker, pulse, volumes, ciface>>
vars == <<fifo_vars, m_target_speed, conv_saturates, fifo_under_test, last_mix,
          mixer_vars, callback_vars, osd_vars, thread_vars, part_vars>>

\* ---- integer helpers ----------------------------------------------------
Min(a, b) == IF a < b THEN a ELSE b
Max(a, b) == IF a > b THEN a ELSE b
U32(x) == x % U32Mod
\* x & INDEX_MASK for a u32 x
AndMask(x) == x % (INDEX_MASK + 1)
\* conversion of a non-negative double to u32; out of range is undefined
\* behaviour: x86-64 builds wrap, AArch64 builds saturate
DoubleToU32(x) == IF x < U32Mod THEN x
                  ELSE IF conv_saturates THEN U32Mod - 1 ELSE x % U32Mod

ConstantlyPushed(f) == f # "wiimote"

\* ---- MixerFifo index arithmetic -----------------------------------------
\* fr is the value of m_fract, speed the value of Mixer::GetCurrentSpeed()
\* at the time of the call
\* (the ...At operators take the value of m_input_sample_rate from the caller)
GetNextIndexRAt(in_rate, indexR, fr, speed) ==
  LET rate == (in_rate * speed) \div FD
  IN  DoubleToU32(indexR + (IF fr >= 0 THEN NC * ((fr + rate) \div FD) ELSE 0))

GetNextIndexR(f, indexR, fr, speed) ==
  GetNextIndexRAt(m_input_sample_rate[f], indexR, fr, speed)

SamplesDifferenceAt(in_rate, indexW, indexR, fr, speed) ==
  LET diff == U32(indexW - GetNextIndexRAt(in_rate, indexR, fr, speed))
      normalized_diff == AndMask(diff)
  IN  IF normalized_diff = 0
      THEN (IF diff = 0 THEN 0 ELSE MAX_SAMPLES * NC)
      ELSE normalized_diff

SamplesDifference(f, indexW, indexR, fr, speed) ==
  SamplesDifferenceAt(m_input_sample_rate[f], indexW, indexR, fr, speed)

NumSamples(f, speed) ==
  SamplesDifference(f, m_indexW[f], m_indexR[f], m_fract[f], speed) \div NC

AvailableSamples(f, speed) ==
  LET fifo_samples == NumSamples(f, speed)
  IN  IF fifo_samples <= INTERP_SAMPLES THEN 0
      ELSE ((fifo_samples - INTERP_SAMPLES) * FD) \div m_input_sample_rate[f]

\* ---- MixerFifo::PushSamples ----------------------------------------------
\* frames accepted by a push that loaded indexW and indexR
PushCountAt(f, in_rate, indexW, indexR, num_samples) ==
  LET fifo_samples == SamplesDifferenceAt(in_rate, indexW, indexR, m_fract[f],
                                          m_target_speed)
  IN  IF num_samples * NC + fifo_samples > MAX_SAMPLES * NC
      THEN MAX_SAMPLES - fifo_samples \div NC
      ELSE num_samples

PushCount(f, indexW, indexR, num_samples) ==
  PushCountAt(f, m_input_sample_rate[f], indexW, indexR, num_samples)

\* the two memcpy of a push of cnt frames at indexW; the short copied to
\* position p of the stream is tagged p
PushCopy(buf, indexW, cnt) ==
  LET start == AndMask(indexW)
      total == cnt * NC
      over == total - (MAX_SAMPLES * NC - start)
      first == IF over > 0 THEN total - over ELSE total
  IN  [s \in Slots |->
         IF s >= start /\ s < start + first THEN U32(indexW + (s - start))
         ELSE IF over > 0 /\ s < over THEN U32(indexW + first + s)
         ELSE buf[s]]

\* a whole PushSamples call on a FIFO whose producer state is (indexW, buf)
PushSamplesAt(f, in_rate, indexW, buf, num_samples) ==
  LET cnt == IF num_samples = 0 THEN 0
             ELSE PushCountAt(f, in_rate, indexW, m_indexR[f], num_samples)
  IN  [indexW |-> U32(indexW + cnt * NC), buffer |-> PushCopy(buf, indexW, cnt),
       count |-> cnt]

PushSamples(f, indexW, buf, num_samples) ==
  PushSamplesAt(f, m_input_sample_rate[f], indexW, buf, num_samples)

\* ---- MixerFifo::CubicInterpolation ---------------------------------------
\* slot of m_buffer / m_interpolation_buffer used for tap number tap (0..3)
\* and channel offset ch of the frame at indexR
TapSlot(indexR, direction, tap, ch) ==
  AndMask(U32(indexR + 2 * tap * direction + ch))

\* slots touched by the byte-swap pass that precedes the interpolation
SwapSlots(first_indexR, samples_to_read, direction) ==
  UNION {{AndMask(U32(first_indexR + direction * j)),
          AndMask(U32(first_indexR + direction * j + 1))} :
         j \in {x \in 0 .. samples_to_read : x % NC = 0}}

\* st = [i, fract, indexR, avail, next, s, reads, taps]; taps lists the read
\* position and fract of every frame made; mfract is m_fract when the
\* loop does not run on it (backwards), speed is GetCurrentSpeed()
RECURSIVE CubicLoop(_, _, _, _, _, _, _, _)
CubicLoop(f, forwards, num_samples, rate, indexW, mfract, speed, st) ==
  IF st.i < num_samples /\
     (~forwards \/ (st.next > INTERP_SAMPLES * NC /\ st.next <= st.avail))
  THEN LET fr1 == st.fract + rate
           whole == fr1 \div FD
           fr2 == fr1 % FD
           r1 == U32(st.indexR + NC * whole * (IF forwards THEN 1 ELSE -1))
           next1 == SamplesDifference(f, indexW, r1,
                                      IF forwards THEN fr2 ELSE mfract, speed)
       IN  CubicLoop(f, forwards, num_samples, rate, indexW, mfract, speed,
                     [i |-> st.i + 1, fract |-> fr2, indexR |-> r1,
                      avail |-> st.next, next |-> next1,
                      s |-> <<"L", "R">>,
                      reads |-> st.reads \cup {r1},
                      taps |-> Append(st.taps, [indexR |-> r1, fract |-> fr2])])
  ELSE st

CubicInterpolation(f, forwards, num_samples, rate, indexR, indexW, fr0, mfract, speed, s0) ==
  LET available_samples == SamplesDifference(f, indexW, indexR, mfract, speed)
      reset == fr0 < 0 /\ num_samples > 0 /\
               (~forwards \/ available_samples > INTERP_SAMPLES * NC)
  IN  CubicLoop(f, forwards, num_samples, rate, indexW, mfract, speed,
                [i |-> 0, fract |-> IF reset THEN 0 - rate ELSE fr0,
                 indexR |-> indexR, avail |-> available_samples,
                 next |-> available_samples, s |-> s0, reads |-> {},
                 taps |-> <<>>])

\* ---- MixerFifo::Mix -------------------------------------------------------
\* frames still missing after the forward pass
BehindSamplesWholeRequest(num_samples, actual_samples_count) == num_samples

BehindSamples(num_samples, actual_samples_count) == num_samples - actual_samples_count

\* what Mix decides once the forward pass returned fwd: the stored read
\* position, the start of the reverse pass and how the missing frames are made
MixUnderrun(f, num_samples, stretching, fwd) ==
  LET actual_samples_count == fwd.i
      short == actual_samples_count # num_samples
      turn == short /\ actual_samples_count > 0
      behind_samples == BehindSamples(num_samples, actual_samples_count)
      reverse == behind_samples > 0 /\ ConstantlyPushed(f) /\ ~stretching
  IN  [indexR |-> IF short THEN U32(m_indexW[f] - INTERP_SAMPLES * NC) ELSE fwd.indexR,
       fract |-> IF short THEN NoFract ELSE fwd.fract,
       backwards_indexR |-> IF turn THEN U32(fwd.indexR + INTERP_SAMPLES * NC)
                            ELSE m_backwards_indexR[f],
       backwards_fract |-> IF turn THEN FD - fwd.fract ELSE m_backwards_fract[f],
       behind_samples |-> behind_samples,
       reverse |-> reverse,
       padding |-> ~reverse /\ behind_samples > 0 /\
                   (ConstantlyPushed(f) \/ m_currently_pushed[f])]

\* the state Mix leaves and what it touched, from the forward pass fwd, the
\* decisions u and the reverse pass back
MixStores(f, speed, fwd, u, back) ==
  [indexR |-> u.indexR, fract |-> u.fract,
   backwards_indexR |-> IF u.reverse THEN back.indexR ELSE u.backwards_indexR,
   backwards_fract |-> IF u.reverse THEN back.fract ELSE u.backwards_fract,
   last_output_samples |-> fwd.s,
   actual |-> fwd.i,
   back |-> IF u.reverse THEN back.i ELSE 0,
   pad |-> IF u.padding THEN u.behind_samples ELSE 0,
   reads |-> fwd.reads,
   taps |-> fwd.taps,
   back_first |-> IF u.reverse
                  THEN GetNextIndexR(f, u.backwards_indexR, u.fract, speed) ELSE 0,
   back_reads |-> IF u.reverse THEN back.reads ELSE {},
   osd |-> u.padding /\ m_indexW[f] > 8]

\* the reverse pass of Mix, which starts from the decisions u
MixBackwards(f, speed, fwd, u) ==
  MixStores(f, speed, fwd, u,
            CubicInterpolation(f, FALSE, u.behind_samples, m_input_sample_rate[f],
                               u.backwards_indexR, m_indexW[f], u.backwards_fract,
                               u.fract, speed, fwd.s))

\* Mix from the return of the forward pass on
MixAfterForward(f, num_samples, stretching, speed, fwd) ==
  MixBackwards(f, speed, fwd, MixUnderrun(f, num_samples, stretching, fwd))

MixerFifoMix(f, num_samples, stretching, speed) ==
  MixAfterForward(f, num_samples, stretching, speed,
    CubicInterpolation(f, TRUE, num_samples,
                       (m_input_sample_rate[f] * (IF stretching THEN FD ELSE speed)) \div FD,
                       m_indexR[f], m_indexW[f], m_fract[f], m_fract[f], speed,
                       <<m_last_output_samples[f][2], m_last_output_samples[f][2]>>))

\* the shorts of the output buffer a Mix call with result m writes: forward
\* frames from 0, reverse-played or padded frames behind them
MixWrites(num_samples, m) ==
  {i * NC + c : i \in 0 .. m.actual - 1, c \in 0 .. 1}
  \cup {m.actual * NC + i * NC + c : i \in 0 .. m.back - 1, c \in 0 .. 1}
  \cup (IF m.pad > 0 THEN m.actual * 2 .. num_samples * 2 - 1 ELSE {})

\* the slots of the ring and of the interpolation buffer the reverse-play
\* pass of a Mix call with result m touches
BackSlots(f, num_samples, m) ==
  LET behind_samples == num_samples - m.actual
      requested_samples == ((m_input_sample_rate[f] * behind_samples) \div FD) * NC + NC
      samples_to_read == Min(requested_samples + INTERP_SAMPLES * NC, MAX_SAMPLES * NC)
  IN  IF m.back = 0 THEN {}
      ELSE SwapSlots(m.back_first, samples_to_read, -1)
           \cup {TapSlot(r, -1, t, c) : r \in m.back_reads, t \in 0 .. 3, c \in 0 .. 1}

\* what the last MixerFifo::Mix call did, kept for the properties
MixSummary(m) ==
  [forward |-> m.actual > 0,
   fill |-> IF m.back > 0 THEN "reverse" ELSE IF m.pad > 0 THEN "pad" ELSE "none"]

NoMix == [forward |-> FALSE, fill |-> "never"]

\* ---- MixerFifo::UpdatePush ------------------------------------------------
\* time of num_samples frames at rate (1/FD of an output frame time)
TimeOf(num_samples, rate) == (num_samples * FD * FD) \div rate

\* frames of silence that prime a FIFO which starts being pushed
PrimingSamples(rate) ==
  Min((MaxLatency * rate) \div (2 * FD), MAX_SAMPLES)

\* result of UpdatePush(time) on FIFO f: timer, flag and producer state;
\* audio_stretch is the value of SConfig::m_audio_stretch it reads
\* a positive update adds its time to the timer
PositiveTimerAdded(timer, time) == timer + time

\* m_last_push_timer = std::max(m_last_push_timer, time)
PositiveTimer(timer, time) == Max(timer, time)

\* a negative update decides on the timer it leaves
NegativePushedAfter(timer, time) == timer + time > 0

\* else if (m_last_push_timer > 0.0) ... currently_pushed = true
NegativePushed(timer, time) == timer > 0

UpdatePushAt(f, in_rate, time, audio_stretch) ==
  LET timer == IF time >= 0 THEN PositiveTimer(m_last_push_timer[f], time)
               ELSE IF m_last_push_timer[f] > 0 THEN m_last_push_timer[f] + time
               ELSE m_last_push_timer[f]
      currently_pushed == IF time >= 0 THEN timer > 0
                          ELSE NegativePushed(m_last_push_timer[f], time)
      changed == m_currently_pushed[f] # currently_pushed
      num_samples == IF ~changed THEN 0
                     ELSE IF currently_pushed
                          THEN (IF audio_stretch THEN 0 ELSE PrimingSamples(in_rate))
                          ELSE INTERP_SAMPLES + 1
      p == PushSamplesAt(f, in_rate, m_indexW[f], m_buffer[f], num_samples)
  IN  [timer |-> timer, currently_pushed |-> currently_pushed,
       indexW |-> p.indexW, buffer |-> p.buffer, pushed |-> p.count,
       num_samples |-> num_samples,
       calls_push |-> changed /\ (~currently_pushed \/ ~audio_stretch)]

UpdatePush(f, time, audio_stretch) ==
  UpdatePushAt(f, m_input_sample_rate[f], time, audio_stretch)

\* ---- initial state ---------------------------------------------------------
InitFifos ==
  /\ m_indexW = [f \in Fifos |-> 0]
  /\ m_indexR = [f \in Fifos |-> 0]
  /\ m_fract = [f \in Fifos |-> NoFract]
  /\ m_backwards_indexR = [f \in Fifos |-> 0]
  /\ m_backwards_fract = [f \in Fifos |-> NoFract]
  /\ m_last_output_samples = [f \in Fifos |-> <<"0", "0">>]
  /\ m_buffer = [f \in Fifos |-> [s \in Slots |-> -1]]
  /\ m_input_sample_rate = [f \in Fifos |-> FD]
  /\ m_currently_pushed = [f \in Fifos |-> FALSE]
  /\ m_last_push_timer = [f \in Fifos |-> 0]

\* nothing mixed yet: every Mix so far (none) ran at rate 1 without underrun
NoHistory == [clean |-> TRUE, played |-> 0, last_fwd |-> -1]

Threads == {"streaming_thread", "speaker_thread"}
NoCall == [fifo |-> "none", num_samples |-> 0, indexW |-> 0, count |-> 0, then |-> 0]
NoPending == [osd |-> {}]

InitMixer ==
  /\ m_target_speed = FD
  /\ m_behind_target_speed = FALSE
  /\ m_latency_catching_up = FALSE
  /\ m_stretching = FALSE
  /\ m_time_behind_target_speed = 0
  /\ m_time_at_custom_speed = 0

InitCallback ==
  /\ audio_pc = "idle"
  /\ pending = NoPending
  /\ out = <<>>
  /\ mix_return = 0
  /\ callbacks = 0
  /\ s_messages_mutex = "free"
  /\ s_messages = {}

InitThreads ==
  /\ pc = [t \in Threads |-> "idle"]
  /\ locals = [t \in Threads |-> NoCall]

\* the backend, the WAV writer and the output short before anything ran
\* CubebStream after Init, the mixer at the default rate, no Update made yet;
\* stale records a stop or destroy applied to a stream already destroyed
NoUpdate ==
  [flagged |-> FALSE, was_running |-> FALSE, stop |-> "none", start |-> "none",
   flag_after |-> FALSE, running_after |-> FALSE]
NoStream ==
  [m_running |-> FALSE, m_should_restart |-> FALSE, m_stream |-> "none",
   s_sound_stream_running |-> FALSE, m_sample_rate |-> 48000,
   pc |-> "idle", running |-> FALSE, caller |-> "none",
   in_callback |-> FALSE, callbacks |-> 0, last_update |-> NoUpdate,
   stale |-> FALSE]
InitBackend == cubeb = NoStream
\* a WaveFileWriter after its constructor: no file, nothing being dumped;
\* files lists every file the writer opened, the last one is the open one;
\* session is what the caller did since its last Start
NoSession ==
  [sample_rate |-> 0, first |-> 0, in |-> <<>>, same_rate |-> TRUE, stopped |-> FALSE]
NoWave ==
  [file_open |-> FALSE, audio_size |-> 0, current_sample_rate |-> 0, file_index |-> 0,
   skip_silence |-> FALSE, logging |-> FALSE, files |-> <<>>, pushed |-> 0,
   session |-> NoSession]
InitWave == wave = NoWave
\* one short of the output buffer and the last addend of its channel
NoSample ==
  [sample |-> 0, was |-> 0, added |-> 0, last |-> 0, writes |-> 0, by |-> "memset"]
InitMixed == mixed = NoSample
\* SConfig as the mixer finds it at start (frame limiter on, a positive speed
\* tolerance, stretching off) and no Mixer::Mix call made yet
NoMixCall ==
  [n |-> 0, ran |-> FALSE, frame_limiter |-> TRUE, tolerance |-> 0,
   emulation_speed |-> 0, last_speed |-> 0, average_speed |-> 0, cached_speed |-> 0,
   behind_was |-> FALSE, time_was |-> 0, catching_was |-> FALSE, stretching_was |-> FALSE,
   audio_stretch |-> FALSE, base_speed |-> 0, tempo |-> 0,
   over_max |-> FALSE, over_target |-> FALSE, clear |-> FALSE,
   available |-> 0, mixed_for |-> 0, stretcher_in |-> 0, stretcher_out |-> 0,
   received |-> 0, drained |-> TRUE, extent |-> 0, frames |-> <<>>]
NoPolicy ==
  [cfg |-> [emulation_speed |-> FD, throttler_disabled |-> FALSE, tolerance |-> MaxTolerance,
            audio_stretch |-> FALSE],
   calls |-> 0, clears |-> 0, entries |-> 0, last |-> NoMixCall]
InitPolicy == policy = NoPolicy
\* the remote speaker before its first push
NoSpeaker ==
  [enabled |-> TRUE, negatives |-> 0,
   last |-> [kind |-> "none", time |-> 0, timer_was |-> 0, pushed_was |-> FALSE,
             free_was |-> 0, silence |-> 0, first |-> 0, samples |-> 0,
             audio_stretch |-> FALSE, rate |-> 0]]
InitSpeaker == speaker = NoSpeaker
\* a PulseAudio object before Init: no stream, not running, nothing submitted
NoConnect == [channels |-> 0, bytespersample |-> 0]
NoWrite ==
  [length |-> 0, frames |-> 0, trunc_length |-> 0, submitted |-> FALSE, running |-> FALSE,
   call |-> "none", mixed_bytes |-> 0, content |-> "none"]
NoPulse ==
  [m_running |-> FALSE, m_stereo |-> TRUE, m_channels |-> 0, m_bytespersample |-> 0,
   init |-> "none", connected |-> NoConnect, attempts |-> <<>>, last |-> NoWrite]
InitPulse == pulse = NoPulse
\* every FIFO at unity gain, no SetVolume call made yet
UnityVolume == 256
NoVolumes ==
  [stored |-> [f \in Fifos |-> <<UnityVolume, UnityVolume>>],
   last |-> [fifo |-> "none", l |-> 0, r |-> 0]]
InitVolumes == volumes = NoVolumes
\* the ControllerInterface before Initialize
\* (nothing initialised, no device, the host and the hotplug thread outside
\* its methods); shut_down tells that Shutdown returned and Initialize was not
\* called since
NoInterface ==
  [m_is_init |-> FALSE, m_devices |-> {}, m_devices_mutex |-> "free", pc |-> "idle",
   hotplug |-> "idle", device |-> 0, shut_down |-> FALSE]
InitInterface == ciface = NoInterface
InitParts == InitBackend /\ InitWave /\ InitMixed /\ InitPolicy /\ InitSpeaker /\ InitPulse /\ InitVolumes /\ InitInterface

InitCommon ==
  /\ InitFifos
  /\ InitMixer
  /\ InitCallback
  /\ InitThreads
  /\ conv_saturates \in BOOLEAN
  /\ last_mix = NoMix
  /\ history = NoHistory

\* ==== class-level specification of one MixerFifo ==========================
\* any sequence of the FIFO's methods on the FIFO under test
InitFifo ==
  /\ InitCommon
  /\ paused = FALSE
  /\ m_stereo = TRUE
  /\ fifo_under_test \in {"dma", "wiimote"}
  /\ InitParts

FifoPushSamples(num_samples) ==
  LET f == fifo_under_test
  IN  \E p \in {PushSamples(f, m_indexW[f], m_buffer[f], num_samples)} :
      /\ m_indexW' = [m_indexW EXCEPT ![f] = p.indexW]
      /\ m_buffer' = [m_buffer EXCEPT ![f] = p.buffer]
      /\ UNCHANGED <<m_indexR, m_fract, m_backwards_indexR, m_backwards_fract,
                     m_last_output_samples, m_input_sample_rate, m_currently_pushed,
                     m_last_push_timer, m_target_speed,
                     conv_saturates, fifo_under_test, part_vars, last_mix,
                     mixer_vars, callback_vars, osd_vars, thread_vars>>

FifoSetInputSampleRate(rate) ==
  /\ m_input_sample_rate[fifo_under_test] # rate
  /\ m_input_sample_rate' = [m_input_sample_rate EXCEPT ![fifo_under_test] = rate]
  /\ UNCHANGED <<m_indexW, m_indexR, m_fract, m_backwards_indexR, m_backwards_fract,
                 m_last_output_samples, m_buffer, m_currently_pushed,
                 m_last_push_timer, m_target_speed,
                 conv_saturates, fifo_under_test, part_vars, last_mix,
                     mixer_vars, callback_vars, osd_vars, thread_vars>>

FifoUpdatePush(time, audio_stretch) ==
  LET f == fifo_under_test
  IN  \E u \in {UpdatePush(f, time, audio_stretch)} :
      /\ ~ConstantlyPushed(f)
      /\ m_last_push_timer' = [m_last_push_timer EXCEPT ![f] = u.timer]
      /\ m_currently_pushed' = [m_currently_pushed EXCEPT ![f] = u.currently_pushed]
      /\ m_indexW' = [m_indexW EXCEPT ![f] = u.indexW]
      /\ m_buffer' = [m_buffer EXCEPT ![f] = u.buffer]
      /\ UNCHANGED <<m_indexR, m_fract, m_backwards_indexR, m_backwards_fract,
                     m_last_output_samples, m_input_sample_rate, m_target_speed,
                     conv_saturates, fifo_under_test, part_vars, last_mix,
                     mixer_vars, callback_vars, osd_vars, thread_vars>>

\* the mixer fixes the speed of the callback (1.0 when stretching) and then
\* calls MixerFifo::Mix
FifoMix(num_samples, stretching, speed) ==
  LET f == fifo_under_test
      sp == IF stretching THEN FD ELSE speed
  IN  \E m \in {MixerFifoMix(f, num_samples, stretching, sp)} :
      /\ m_target_speed' = sp
      /\ m_indexR' = [m_indexR EXCEPT ![f] = m.indexR]
      /\ m_fract' = [m_fract EXCEPT ![f] = m.fract]
      /\ m_backwards_indexR' = [m_backwards_indexR EXCEPT ![f] = m.backwards_indexR]
      /\ m_backwards_fract' = [m_backwards_fract EXCEPT ![f] = m.backwards_fract]
      /\ m_last_output_samples' =
            [m_last_output_samples EXCEPT ![f] = m.last_output_samples]
      /\ last_mix' = MixSummary(m)
      /\ UNCHANGED <<m_indexW, m_buffer, m_input_sample_rate, m_currently_pushed,
                     m_last_push_timer, conv_saturates, fifo_under_test, part_vars,
                     mixer_vars, callback_vars, osd_vars, thread_vars>>

NextFifo ==
  \/ \E n \in 1 .. MaxPush : FifoPushSamples(n)
  \/ \E r \in InRates : FifoSetInputSampleRate(r)
  \/ \E t \in {TimeOf(1, FD), 0 - TimeOf(1, FD)}, st \in BOOLEAN : FifoUpdatePush(t, st)
  \/ \E n \in 1 .. MaxN, st \in BOOLEAN, sp \in Speeds : FifoMix(n, st, sp)

SpecFifo == InitFifo /\ [][NextFifo]_vars

\* ---- properties of one FIFO ------------------------------------------------
\* frames a push finds free: capacity minus the frames between the counters
FreeFrames(f) == MAX_SAMPLES - U32(m_indexW[f] - m_indexR[f]) \div NC

\* stream positions between the counters
LivePositions(f) ==
  {U32(m_indexR[f] + k) : k \in 0 .. U32(m_indexW[f] - m_indexR[f]) - 1}

\* every call the mixer can make on the FIFO under test in this state
MixCalls == {c \in [n : 0 .. MaxN, stretching : BOOLEAN, speed : Speeds] :
               c.stretching => c.speed = FD}

\* C1: in every reachable state the distance indexW - indexR of the raw
\* counters (u32 arithmetic) lies between 0 and MAX_SAMPLES * NC
C1_IndexDistanceWithinCapacity ==
  \A f \in Fifos : U32(m_indexW[f] - m_indexR[f]) <= MAX_SAMPLES * NC

\* C2: a push of n frames that finds f < n frames free advances indexW by
\* exactly f frames, and no push overwrites a slot that holds a frame
\* between indexR and indexW
C2_PushClipsToFreeSpace ==
  [][\A n \in 1 .. MaxPush :
       LET f == fifo_under_test
       IN  FifoPushSamples(n) =>
             /\ (FreeFrames(f) >= 0 /\ n > FreeFrames(f)) =>
                   m_indexW'[f] = U32(m_indexW[f] + FreeFrames(f) * NC)
             /\ \A p \in LivePositions(f) :
                   m_buffer[f][AndMask(p)] = p => m_buffer'[f][AndMask(p)] = p]_vars

\* C3: every slot a forward-interpolated frame uses as a tap lies between the
\* read position and indexW and was written by an earlier push
C3_ForwardTapsAreWrittenFrames ==
  \A c \in MixCalls :
    LET f == fifo_under_test
        m == MixerFifoMix(f, c.n, c.stretching, c.speed)
    IN  \A r \in m.reads :
          /\ U32(m_indexW[f] - r) >= (INTERP_SAMPLES + 1) * NC
          /\ U32(m_indexW[f] - r) <= MAX_SAMPLES * NC
          /\ \A t \in 0 .. INTERP_SAMPLES, ch \in 0 .. NC - 1 :
                m_buffer[f][TapSlot(r, 1, t, ch)] # -1

\* C4: every step leaves both counters of every FIFO where they were or
\* further on (u32 arithmetic: not behind their previous value)
C4_IndicesOnlyIncrease ==
  [][\A f \in Fifos :
       /\ U32(m_indexW'[f] - m_indexW[f]) < U32Mod \div 2
       /\ U32(m_indexR'[f] - m_indexR[f]) < U32Mod \div 2]_vars

\* C10: whatever n is, one MixerFifo::Mix writes only out[0 .. n*NC-1]:
\* forward, reverse-played and padded frames together are at most n, and the
\* reverse-play pass touches the ring and the interpolation buffer only at
\* masked indices
C10_MixStaysInsideRequest ==
  \A c \in MixCalls :
    LET f == fifo_under_test
        m == MixerFifoMix(f, c.n, c.stretching, c.speed)
    IN  /\ MixWrites(c.n, m) \subseteq 0 .. c.n * NC - 1
        /\ m.actual + m.back + m.pad <= c.n
        /\ BackSlots(f, c.n, m) \subseteq Slots

\* a Mix produced forward frames and reverse-played the rest
C10_Witness == last_mix.forward /\ last_mix.fill = "reverse"

\* C12: a Mix that produces fewer forward frames than requested fills the
\* missing frames in exactly one way: reverse play when the FIFO is
\* constantly pushed and stretching is off, otherwise every missing frame
\* gets the last produced sample of its own channel added (adding the zero
\* of a FIFO that never produced a frame counts as done)
C12_ExactlyOneFillStrategy ==
  \A c \in MixCalls :
    LET f == fifo_under_test
        m == MixerFifoMix(f, c.n, c.stretching, c.speed)
    IN  m.actual < c.n =>
          IF ConstantlyPushed(f) /\ ~c.stretching
          THEN m.back = c.n - m.actual /\ m.pad = 0
          ELSE /\ m.back = 0
               /\ m.pad = c.n - m.actual \/ m.last_output_samples = <<"0", "0">>
               /\ m.last_output_samples[1] \in {"0", "L"}
               /\ m.last_output_samples[2] \in {"0", "R"}

\* ==== Mixer::Mix, Mixer::MixSurround and the backend callback ==============
MaxBehindTime == 4      \* cap of m_time_behind_target_speed, in time units
MaxCallbacks == 2       \* backend callbacks in one behaviour

\* settings a callback reads: the emulation speed, the throttler switch and
\* the emulation speed tolerance
ThrottleSettings ==
  {[emulation_speed |-> FD, throttler_disabled |-> TRUE, tolerance |-> 0]}
  \cup {[emulation_speed |-> FD, throttler_disabled |-> FALSE, tolerance |-> t] :
          t \in {-1, 0, MaxTolerance}}

\* what the speed tracker m_dma_speed reports to a callback: the last speed,
\* the cached average and the cached average since the custom speed began
\* (last_speed and cached_speed in 1/FD, average_speed in 1/(FD * SpeedScale))
SpeedScale == 1000      \* 1 / FallbackDelta2
TrackerReadings ==
  {[last_speed |-> FD, average_speed |-> FD * SpeedScale, cached_speed |-> FD],
   [last_speed |-> FD \div 2, average_speed |-> (FD \div 2) * SpeedScale,
    cached_speed |-> FD \div 2]}

\* what the stretcher reports to a callback of num_samples frames
StretcherReadings(num_samples) ==
  {[processed_latency |-> 0, acceptable_latency |-> TimeOf(num_samples, FD),
    received |-> 0],
   [processed_latency |-> 2 * MaxLatency * FD,
    acceptable_latency |-> TimeOf(num_samples, FD), received |-> num_samples]}

\* the first test of Mixer::Mix
MixEarlyReturnIgnoresPause(num_samples, is_paused) == num_samples = 0

MixEarlyReturn(num_samples, is_paused) == num_samples = 0 \/ is_paused

\* target_speed *= catch_up_speed: the next speed the model can tell apart
CatchUp(speed) == speed + 1

\* m_time_behind_target_speed without the std::max of line 373
BehindTimeUnsaturated(time_behind, gain_time_delta) == time_behind + gain_time_delta

\* std::max(m_time_behind_target_speed + gain_time_delta, 0.0)
BehindTime(time_behind, gain_time_delta) == Max(time_behind + gain_time_delta, 0)

\* the test of line 411 without dynamic_audio_speed_allowed
DynamicSpeedUnchecked(tolerance, behind) == tolerance = 0 \/ behind

\* dynamic_audio_speed_allowed && (dynamic_audio_speed_forced || m_behind_target_speed)
DynamicSpeed(tolerance, behind) == tolerance >= 0 /\ (tolerance = 0 \/ behind)

\* the speed throttling of Mixer::Mix: the new behind/time state, the target
\* speed before the latency check and the OSD messages it posts
Throttle(num_samples, cfg, trk) ==
  LET emulation_speed == cfg.emulation_speed
      frame_limiter == emulation_speed > 0 /\ ~cfg.throttler_disabled
      time_delta == TimeOf(num_samples, FD)
      tolerance == cfg.tolerance
      gain_time_delta ==
        (time_delta * (emulation_speed - trk.last_speed)) \div emulation_speed
      behind_time == BehindTime(m_time_behind_target_speed, gain_time_delta)
      slower == trk.last_speed < emulation_speed
      recovered == ~slower /\
                   trk.average_speed >= emulation_speed * SpeedScale - emulation_speed
      fell_behind == slower /\ behind_time > tolerance
      behind == IF ~frame_limiter
                THEN m_behind_target_speed /\ trk.cached_speed < emulation_speed
                ELSE IF fell_behind THEN TRUE
                ELSE IF recovered THEN FALSE
                ELSE m_behind_target_speed
      custom == ~frame_limiter \/ DynamicSpeed(tolerance, behind)
  IN  [behind_target_speed |-> behind,
       time_behind_target_speed |->
          IF ~frame_limiter
          THEN (IF trk.cached_speed >= emulation_speed THEN 0
                ELSE m_time_behind_target_speed)
          ELSE IF recovered THEN 0 ELSE behind_time,
       time_at_custom_speed |-> IF custom THEN 1 ELSE 0,
       target_speed |-> IF custom THEN trk.cached_speed ELSE emulation_speed,
       osd |-> IF frame_limiter /\ tolerance > 0
               THEN (IF fell_behind /\ ~m_behind_target_speed
                     THEN {"m_behind_target_speed = true"}
                     ELSE IF ~slower /\ recovered /\ m_behind_target_speed
                     THEN {"m_behind_target_speed = false"} ELSE {})
               ELSE {}]

\* latency > (catching_up ? target_latency : max_latency)
LatencyOver(num_samples, stretching, target_speed, str, catching_up) ==
  LET max_latency == MaxLatency * FD
      time_delta == TimeOf(num_samples, FD)
      acceptable_latency == str.acceptable_latency - time_delta
      in_rate == m_input_sample_rate["dma"]
      behind_mix == (NumSamples("dma", target_speed) - INTERP_SAMPLES) * FD * FD
                    - num_samples * in_rate * target_speed
      post_mix_samples == IF behind_mix > 0 THEN behind_mix \div (FD * FD) ELSE 0
  IN  IF stretching
      THEN 2 * str.processed_latency >
             (IF catching_up THEN 2 * acceptable_latency + max_latency
              ELSE 2 * (max_latency + acceptable_latency))
      ELSE 2 * post_mix_samples * FD * FD >
             (IF catching_up THEN max_latency ELSE 2 * max_latency) * in_rate

\* the test of line 487 with max_latency as its only limit
LatencyOverMaxOnly(num_samples, stretching, target_speed, str) ==
  LatencyOver(num_samples, stretching, target_speed, str, FALSE)

\* latency > (m_latency_catching_up ? target_latency : max_latency)
LatencyOverLimit(num_samples, stretching, target_speed, str) ==
  LatencyOver(num_samples, stretching, target_speed, str, m_latency_catching_up)

\* a MixerFifo::Mix that is not called
FifoUntouched(f) ==
  [indexR |-> m_indexR[f], fract |-> m_fract[f],
   backwards_indexR |-> m_backwards_indexR[f],
   backwards_fract |-> m_backwards_fract[f],
   last_output_samples |-> m_last_output_samples[f],
   actual |-> 0, back |-> 0, pad |-> 0, reads |-> {}, taps |-> <<>>, back_first |-> 0,
   back_reads |-> {}, osd |-> FALSE]

\* a remote speaker's FIFO limits the frames whether it is pushed or not
SpeakerAvailableAlways(f) == AvailableSamples(f, FD)

\* what a remote speaker's FIFO lets the stretching path mix (lines 513-520)
SpeakerAvailable(f) ==
  IF m_currently_pushed[f] THEN AvailableSamples(f, FD) ELSE MAX_SAMPLES * FD

\* the FIFOs of the direct path fill the whole request
DirectFramesWhole(num_samples, received_samples) == num_samples

\* num_samples -= received_samples
DirectFrames(num_samples, received_samples) == num_samples - received_samples

\* m_stretcher.Clear() on every stretching call
StretcherClearedAlways(stretching, was_stretching) == stretching

\* if (stretching) if (!m_stretching) m_stretcher.Clear()
StretcherCleared(stretching, was_stretching) == stretching /\ ~was_stretching

\* the speeds and frame counts Mixer::Mix settles after the throttling th
MixSpeeds(num_samples, cfg, str, th) ==
  LET stretching == cfg.audio_stretch
      catching_up == LatencyOverLimit(num_samples, stretching, th.target_speed, str)
      target_speed == IF catching_up THEN CatchUp(th.target_speed) ELSE th.target_speed
      available_samples ==
        Min(Min(AvailableSamples("dma", FD), AvailableSamples("streaming", FD)),
            SpeakerAvailable("wiimote"))
      received_samples == IF ~stretching /\ m_stretching
                          THEN Min(str.received, num_samples) ELSE 0
  IN  [catching_up |-> catching_up,
       over_max |-> LatencyOver(num_samples, stretching, th.target_speed, str, FALSE),
       over_target |-> LatencyOver(num_samples, stretching, th.target_speed, str, TRUE),
       available |-> available_samples,
       target_speed |-> target_speed,
       current_speed |-> IF stretching THEN FD ELSE target_speed,
       received_samples |-> received_samples,
       fifo_samples |-> IF stretching THEN available_samples
                        ELSE DirectFrames(num_samples, received_samples)]

\* what Mixer::Mix returns, stores and writes, from the throttling th, the
\* speeds d and the FIFO mixes
MixerMixStores(num_samples, cfg, str, th, d, mixes) ==
  LET stretching == cfg.audio_stretch
      written == UNION {{w \div NC : w \in MixWrites(d.fifo_samples, mixes[f])} :
                        f \in Fifos}
  IN  [ret |-> IF stretching THEN num_samples ELSE num_samples - d.received_samples,
       target_speed |-> d.current_speed,
       tempo |-> d.target_speed,
       behind_target_speed |-> th.behind_target_speed,
       time_behind_target_speed |-> th.time_behind_target_speed,
       time_at_custom_speed |-> th.time_at_custom_speed,
       latency_catching_up |-> d.catching_up,
       stretching |-> IF stretching THEN TRUE
                      ELSE m_stretching /\ str.processed_latency > 0,
       clear |-> StretcherCleared(stretching, m_stretching),
       extent |-> IF stretching THEN num_samples
                  ELSE IF written = {} THEN d.received_samples
                  ELSE d.received_samples + 1 +
                         (CHOOSE w \in written : \A v \in written : v <= w),
       base_speed |-> th.target_speed,
       over_max |-> d.over_max, over_target |-> d.over_target,
       available |-> d.available,
       mixed_for |-> d.fifo_samples,
       stretcher_in |-> IF stretching THEN d.fifo_samples ELSE 0,
       stretcher_out |-> IF stretching \/ m_stretching THEN num_samples ELSE 0,
       received |-> d.received_samples,
       mixes |-> mixes,
       samples |-> [i \in 1 .. num_samples |->
                      IF stretching \/ i <= d.received_samples THEN "stretched"
                      ELSE IF (i - 1 - d.received_samples) \in written THEN "mixed"
                      ELSE "zero"],
       osd |-> th.osd
               \cup (IF d.catching_up THEN {"Reached max latency"} ELSE {})
               \cup (IF \E f \in Fifos : mixes[f].osd THEN {"Behind samples"} ELSE {})]

\* the three MixerFifo::Mix calls of Mixer::Mix
MixerMixFifos(num_samples, cfg, str, th, d) ==
  MixerMixStores(num_samples, cfg, str, th, d,
                 [f \in Fifos |->
                    MixerFifoMix(f, d.fifo_samples, cfg.audio_stretch, d.current_speed)])

\* Mixer::Mix from the end of the throttling on
MixAfterThrottle(num_samples, cfg, str, th) ==
  MixerMixFifos(num_samples, cfg, str, th, MixSpeeds(num_samples, cfg, str, th))

\* Mixer::Mix(samples, num_samples) that passed the first test
MixerMixRun(num_samples, cfg, trk, str) ==
  MixAfterThrottle(num_samples, cfg, str, Throttle(num_samples, cfg, trk))

\* Mixer::Mix(samples, num_samples) on a buffer whose content is "stale"
MixerMix(num_samples, cfg, trk, str) ==
  IF MixEarlyReturn(num_samples, paused)
  THEN [ret |-> 0, target_speed |-> m_target_speed, tempo |-> m_target_speed,
        behind_target_speed |-> m_behind_target_speed,
        time_behind_target_speed |-> m_time_behind_target_speed,
        time_at_custom_speed |-> m_time_at_custom_speed,
        latency_catching_up |-> m_latency_catching_up,
        stretching |-> m_stretching, clear |-> FALSE,
        base_speed |-> m_target_speed, over_max |-> FALSE, over_target |-> FALSE,
        available |-> 0, mixed_for |-> 0, stretcher_in |-> 0, stretcher_out |-> 0,
        received |-> 0, extent |-> 0,
        mixes |-> [f \in Fifos |-> FifoUntouched(f)],
        samples |-> [i \in 1 .. num_samples |-> "stale"], osd |-> {}]
  ELSE MixerMixRun(num_samples, cfg, trk, str)

\* what MixSurround hands over once its Mixer::Mix call returned mix
\* the test of line 601 left out: the scratch buffer always goes to the decoder
SurroundOutputUnchecked(num_samples, needed_samples, mix) ==
  [mix |-> mix, ret |-> num_samples,
   pushed |-> needed_samples, pulled |-> num_samples,
   out |-> [i \in 1 .. num_samples |-> "decoded"]]

SurroundOutput(num_samples, needed_samples, mix) ==
  [mix |-> mix,
   ret |-> IF mix.ret = needed_samples THEN num_samples ELSE 0,
   pushed |-> IF mix.ret = needed_samples THEN needed_samples ELSE 0,
   pulled |-> IF mix.ret = needed_samples THEN num_samples ELSE 0,
   out |-> [i \in 1 .. num_samples |->
              IF mix.ret = needed_samples THEN "decoded" ELSE "zero"]]

\* what the stereo path hands over once its Mixer::Mix call returned mix
StereoOutput(mix) ==
  [mix |-> mix, ret |-> mix.ret, pushed |-> 0, pulled |-> 0, out |-> mix.samples]

\* Mixer::MixSurround(samples, num_samples); needed_samples is what the
\* decoder asks for
MixSurround(num_samples, needed_samples, cfg, trk, str) ==
  SurroundOutput(num_samples, needed_samples, MixerMix(needed_samples, cfg, trk, str))

\* CubebStream::DataCallback(output_buffer, num_frames): what the mixer did
\* and the num_frames frames the backend then plays
DataCallback(num_frames, needed_samples, cfg, trk, str) ==
  IF m_stereo
  THEN StereoOutput(MixerMix(num_frames, cfg, trk, str))
  ELSE MixSurround(num_frames, needed_samples, cfg, trk, str)

\* ---- the mixer with its backend, the emulation and the render thread ------
Settings ==
  {[emulation_speed |-> t.emulation_speed, throttler_disabled |-> t.throttler_disabled,
    tolerance |-> t.tolerance, audio_stretch |-> a] :
     t \in ThrottleSettings, a \in BOOLEAN}

\* the settings the callbacks of this specification run under: frame limiter
\* on, a positive speed tolerance, stretching on or off
CallbackSettings ==
  {x \in Settings : ~x.throttler_disabled /\ x.tolerance = MaxTolerance}

\* the frame counts the surround decoder can ask for to give num_frames
\* the inputs of one backend callback that the state lets matter
CallbackInputs ==
  {c \in [n : 1 .. MaxN, extra : 0 .. 1, cfg : CallbackSettings, trk : TrackerReadings,
          drained : BOOLEAN] :
     /\ m_stereo => c.extra = 0
     /\ (~c.cfg.audio_stretch /\ ~m_stretching) => c.drained
     /\ paused => (c.cfg = CHOOSE x \in CallbackSettings : TRUE) /\ c.drained
                  /\ c.trk = CHOOSE x \in TrackerReadings : TRUE}

StretcherReading(c) ==
  CHOOSE r \in StretcherReadings(c.n + c.extra) : (r.processed_latency = 0) = c.drained

InitSpec ==
  /\ InitCommon
  /\ paused \in BOOLEAN
  /\ m_stereo \in BOOLEAN
  /\ fifo_under_test = "dma"
  /\ InitParts

PushDMASamples(num_samples) ==
  \E p \in {PushSamples("dma", m_indexW["dma"], m_buffer["dma"], num_samples)} :
    /\ m_indexW' = [m_indexW EXCEPT !["dma"] = p.indexW]
    /\ m_buffer' = [m_buffer EXCEPT !["dma"] = p.buffer]
    /\ UNCHANGED <<m_indexR, m_fract, m_backwards_indexR, m_backwards_fract,
                   m_last_output_samples, m_input_sample_rate, m_currently_pushed,
                   m_last_push_timer, m_target_speed, conv_saturates, fifo_under_test, part_vars,
                   last_mix, mixer_vars, callback_vars, osd_vars, thread_vars>>

SetPaused(p) ==
  /\ paused # p
  /\ paused' = p
  /\ UNCHANGED <<fifo_vars, m_target_speed, conv_saturates, fifo_under_test, part_vars, last_mix,
                 m_behind_target_speed, m_latency_catching_up, m_stretching,
                 m_time_behind_target_speed, m_time_at_custom_speed, m_stereo,
                 callback_vars, osd_vars, thread_vars>>

\* the stores of a callback whose result is cb
CallbackStores(cb) ==
  /\ m_target_speed' = cb.mix.target_speed
  /\ m_behind_target_speed' = cb.mix.behind_target_speed
  /\ m_time_behind_target_speed' = cb.mix.time_behind_target_speed
  /\ m_time_at_custom_speed' = cb.mix.time_at_custom_speed
  /\ m_latency_catching_up' = cb.mix.latency_catching_up
  /\ m_stretching' = cb.mix.stretching
  /\ m_indexR' = [f \in Fifos |-> cb.mix.mixes[f].indexR]
  /\ m_fract' = [f \in Fifos |-> cb.mix.mixes[f].fract]
  /\ m_backwards_indexR' = [f \in Fifos |-> cb.mix.mixes[f].backwards_indexR]
  /\ m_backwards_fract' = [f \in Fifos |-> cb.mix.mixes[f].backwards_fract]
  /\ m_last_output_samples' = [f \in Fifos |-> cb.mix.mixes[f].last_output_samples]
  /\ out' = cb.out
  /\ mix_return' = cb.mix.ret
  /\ callbacks' = callbacks + 1
  /\ UNCHANGED <<m_indexW, m_buffer, m_input_sample_rate, m_currently_pushed,
                 m_last_push_timer, conv_saturates, fifo_under_test, part_vars, last_mix,
                 paused, m_stereo, thread_vars>>

\* the backend calls DataCallback; a callback that posts no OSD message runs
\* to its end, one that posts a message stops at the mutex of OSD::AddMessage
BackendCallback(c) ==
  /\ audio_pc = "idle"
  /\ callbacks < MaxCallbacks
  /\ \E cb \in {DataCallback(c.n, c.n + c.extra, c.cfg, c.trk, StretcherReading(c))} :
       /\ cb.mix.time_behind_target_speed <= MaxBehindTime
       /\ IF cb.mix.osd = {}
          THEN /\ CallbackStores(cb)
               /\ UNCHANGED <<audio_pc, pending, osd_vars>>
          ELSE /\ audio_pc' = "wait_osd"
               /\ pending' = cb
               /\ UNCHANGED <<fifo_vars, m_target_speed, conv_saturates, fifo_under_test, part_vars,
                              last_mix, mixer_vars, out, mix_return, callbacks,
                              osd_vars, thread_vars>>

\* std::lock_guard lock{s_messages_mutex} in OSD::AddMessage
CallbackLockOsd ==
  /\ audio_pc = "wait_osd"
  /\ s_messages_mutex = "free"
  /\ s_messages_mutex' = "audio"
  /\ audio_pc' = "in_osd"
  /\ UNCHANGED <<fifo_vars, m_target_speed, conv_saturates, fifo_under_test, part_vars, last_mix,
                 mixer_vars, pending, out, mix_return, callbacks, s_messages,
                 thread_vars>>

\* the message is stored, the mutex released and the callback runs to its end
CallbackLeaveOsd ==
  /\ audio_pc = "in_osd"
  /\ CallbackStores(pending)
  /\ s_messages' = s_messages \cup pending.mix.osd
  /\ s_messages_mutex' = "free"
  /\ audio_pc' = "idle"
  /\ pending' = NoPending

\* OSD::DrawMessages on the render thread: lock, then erase the expired
\* messages and unlock
DrawMessagesLock ==
  /\ s_messages_mutex = "free"
  /\ s_messages_mutex' = "render"
  /\ UNCHANGED <<fifo_vars, m_target_speed, conv_saturates, fifo_under_test, part_vars, last_mix,
                 mixer_vars, callback_vars, s_messages, thread_vars>>

DrawMessagesUnlock ==
  /\ s_messages_mutex = "render"
  /\ s_messages_mutex' = "free"
  /\ \E expired \in BOOLEAN : s_messages' = IF expired THEN {} ELSE s_messages
  /\ UNCHANGED <<fifo_vars, m_target_speed, conv_saturates, fifo_under_test, part_vars, last_mix,
                 mixer_vars, callback_vars, thread_vars>>

Next ==
  \/ \E n \in 1 .. MaxPush : PushDMASamples(n)
  \/ \E p \in BOOLEAN : SetPaused(p)
  \/ \E c \in CallbackInputs : BackendCallback(c)
  \/ CallbackLockOsd
  \/ CallbackLeaveOsd

Spec == InitSpec /\ [][Next]_vars

\* C7: while the speed tracker is paused, Mixer::Mix returns 0 and leaves the
\* buffer it was given, every FIFO's indexR, fract and last output samples
\* and the mixer's behind_target_speed, latency_catching_up, stretching and
\* time_behind_target_speed as they were
C7_PausedMixChangesNothing ==
  [][\A c \in CallbackInputs :
       (paused /\ BackendCallback(c)) =>
         /\ mix_return' = 0
         /\ m_stereo => \A i \in 1 .. Len(out') : out'[i] = "stale"
         /\ UNCHANGED <<m_indexR, m_fract, m_last_output_samples,
                        m_behind_target_speed, m_latency_catching_up, m_stretching,
                        m_time_behind_target_speed>>]_vars

\* a stereo callback ran paused after an earlier callback had mixed frames
C7_Witness ==
  /\ paused /\ m_stereo /\ callbacks > 1 /\ mix_return = 0
  /\ Len(out) > 0 /\ out[1] = "stale"
  /\ m_indexW["dma"] # 0 /\ m_fract["dma"] >= 0

\* C8: every frame the backend gets from a callback made while the emulation
\* is paused is silence, on the stereo and on the surround path
C8_PausedCallbackDeliversSilence ==
  [][\A c \in CallbackInputs :
       (paused /\ BackendCallback(c)) =>
         \A i \in 1 .. Len(out') : out'[i] = "zero"]_vars

\* every MixSurround call the backend makes in this state, with what it does
SurroundCalls ==
  {[c |-> c, s |-> MixSurround(c.n, c.n + c.extra, c.cfg, c.trk, StretcherReading(c))] :
     c \in {x \in CallbackInputs :
              ~m_stereo /\ audio_pc = "idle" /\ callbacks < MaxCallbacks}}

C16_SurroundDeliversRequest ==
  \A x \in SurroundCalls :
    ~paused =>
      /\ x.s.pushed = x.c.n + x.c.extra
      /\ x.s.pulled = x.c.n
      /\ x.s.ret = x.c.n

\* ---- the callback and OSD::DrawMessages of the render thread --------------
InitOsd ==
  /\ InitCommon
  /\ paused = FALSE
  /\ m_stereo = TRUE
  /\ fifo_under_test = "dma"
  /\ InitParts

NextOsd ==
  \/ \E n \in 1 .. MaxPush : PushDMASamples(n)
  \/ \E c \in CallbackInputs : BackendCallback(c)
  \/ CallbackLockOsd
  \/ CallbackLeaveOsd
  \/ DrawMessagesLock
  \/ DrawMessagesUnlock

SpecOsd == InitOsd /\ [][NextOsd]_vars

\* C9: the audio callback never holds a mutex and never waits for one that
\* another thread holds
C9_CallbackTakesNoLock ==
  /\ s_messages_mutex # "audio"
  /\ ~(audio_pc = "wait_osd" /\ s_messages_mutex = "render")

\* ==== producer threads: PushSamples step by step ============================
\* the streaming thread runs PushStreamingSamples, the thread of a remote
\* speaker runs PushWiimoteSpeakerSamples; a PushSamples call is the load of
\* the counters, the copy and the fetch_add, and the other thread runs
\* between any two of them
Producer(f) ==
  IF f = "wiimote" THEN "speaker_thread"
  ELSE IF f = "streaming" THEN "streaming_thread" ELSE "dma_thread"

InPushSamples(t) == pc[t] \in {"push_load", "push_copy", "push_add"}

PushCall(f, num_samples, then) ==
  [fifo |-> f, num_samples |-> num_samples, indexW |-> 0, count |-> 0, then |-> then]

InitThreadSpec ==
  /\ InitCommon
  /\ paused = FALSE
  /\ m_stereo = TRUE
  /\ fifo_under_test = "wiimote"
  /\ InitParts

\* PushWiimoteSpeakerSamples up to the end of its UpdatePush, which reads the
\* sample rate just set; the pushes it makes follow step by step
SpeakerPush(num_samples, sample_rate, audio_stretch) ==
  LET t == "speaker_thread"
      f == "wiimote"
      n == Min(num_samples, MAX_SAMPLES)
  IN  \E u \in {UpdatePush(f, TimeOf(n, sample_rate), audio_stretch)} :
      /\ pc[t] = "idle"
      /\ m_input_sample_rate' = [m_input_sample_rate EXCEPT ![f] = sample_rate]
      /\ m_last_push_timer' = [m_last_push_timer EXCEPT ![f] = u.timer]
      /\ m_currently_pushed' = [m_currently_pushed EXCEPT ![f] = u.currently_pushed]
      /\ locals' = [locals EXCEPT ![t] =
                      IF u.calls_push THEN PushCall(f, PrimingSamples(sample_rate), n)
                      ELSE PushCall(f, n, 0)]
      /\ pc' = [pc EXCEPT ![t] = "push_load"]
      /\ UNCHANGED <<m_indexW, m_indexR, m_fract, m_backwards_indexR, m_backwards_fract,
                     m_last_output_samples, m_buffer,
                     m_target_speed, conv_saturates, fifo_under_test, part_vars, last_mix,
                     mixer_vars, callback_vars, osd_vars>>

\* PushStreamingSamples up to the end of the UpdatePush of the remote
\* speaker's FIFO; the push that UpdatePush makes follows step by step
StreamingPush(num_samples) ==
  LET t == "streaming_thread"
      f == "wiimote"
      time_delta == TimeOf(num_samples, m_input_sample_rate["dma"])
  IN  \E u \in {UpdatePush(f, 0 - time_delta, FALSE)},
         p \in {PushSamples("streaming", m_indexW["streaming"], m_buffer["streaming"],
                            num_samples)} :
      /\ pc[t] = "idle"
      /\ m_indexW' = [m_indexW EXCEPT !["streaming"] = p.indexW]
      /\ m_buffer' = [m_buffer EXCEPT !["streaming"] = p.buffer]
      /\ m_last_push_timer' = [m_last_push_timer EXCEPT ![f] = u.timer]
      /\ m_currently_pushed' = [m_currently_pushed EXCEPT ![f] = u.currently_pushed]
      /\ locals' = [locals EXCEPT ![t] =
                      IF u.calls_push THEN PushCall(f, u.num_samples, 0) ELSE NoCall]
      /\ pc' = [pc EXCEPT ![t] = IF u.calls_push THEN "push_load" ELSE "idle"]
      /\ UNCHANGED <<m_indexR, m_fract, m_backwards_indexR, m_backwards_fract,
                     m_last_output_samples, m_input_sample_rate,
                     m_target_speed, conv_saturates, fifo_under_test, part_vars, last_mix,
                     mixer_vars, callback_vars, osd_vars>>

\* PushSamples: u32 indexW = m_indexW.load() and the clipping of num_samples
ThreadPushLoad(t) ==
  LET l == locals[t]
  IN  /\ pc[t] = "push_load"
      /\ locals' = [locals EXCEPT ![t] =
                      [l EXCEPT !.indexW = m_indexW[l.fifo],
                                !.count = IF l.num_samples = 0 THEN 0
                                          ELSE PushCount(l.fifo, m_indexW[l.fifo],
                                                         m_indexR[l.fifo], l.num_samples)]]
      /\ pc' = [pc EXCEPT ![t] = "push_copy"]
      /\ UNCHANGED <<fifo_vars, m_target_speed, conv_saturates, fifo_under_test, part_vars,
                     last_mix, mixer_vars, callback_vars, osd_vars>>

\* PushSamples: the memcpy of the frames
ThreadPushCopy(t) ==
  LET l == locals[t]
  IN  /\ pc[t] = "push_copy"
      /\ m_buffer' = [m_buffer EXCEPT ![l.fifo] = PushCopy(m_buffer[l.fifo], l.indexW, l.count)]
      /\ pc' = [pc EXCEPT ![t] = "push_add"]
      /\ UNCHANGED <<m_indexW, m_indexR, m_fract, m_backwards_indexR, m_backwards_fract,
                     m_last_output_samples, m_input_sample_rate, m_currently_pushed,
                     m_last_push_timer, m_target_speed, conv_saturates, fifo_under_test, part_vars,
                     last_mix, mixer_vars, callback_vars, osd_vars, locals>>

\* PushSamples: m_indexW.fetch_add(num_samples * NC), then the next push of
\* the caller, if any
ThreadPushAdd(t) ==
  LET l == locals[t]
  IN  /\ pc[t] = "push_add"
      /\ m_indexW' = [m_indexW EXCEPT ![l.fifo] = U32(m_indexW[l.fifo] + l.count * NC)]
      /\ locals' = [locals EXCEPT ![t] =
                      IF l.then > 0 THEN PushCall(l.fifo, l.then, 0) ELSE NoCall]
      /\ pc' = [pc EXCEPT ![t] = IF l.then > 0 THEN "push_load" ELSE "idle"]
      /\ UNCHANGED <<m_indexR, m_fract, m_backwards_indexR, m_backwards_fract,
                     m_last_output_samples, m_buffer, m_input_sample_rate,
                     m_currently_pushed, m_last_push_timer, m_target_speed,
                     conv_saturates, fifo_under_test, part_vars, last_mix,
                     mixer_vars, callback_vars, osd_vars>>

NextThread ==
  \/ \E n \in 1 .. MaxPush, r \in InRates, st \in BOOLEAN : SpeakerPush(n, r, st)
  \/ \E n \in 1 .. MaxPush : StreamingPush(n)
  \/ \E t \in Threads : ThreadPushLoad(t)
  \/ \E t \in Threads : ThreadPushCopy(t)
  \/ \E t \in Threads : ThreadPushAdd(t)

SpecThread == InitThreadSpec /\ [][NextThread]_vars

\* C5: a FIFO has one producer: only the thread of a remote speaker runs
\* PushSamples on that speaker's FIFO, the streaming thread never does
C5_SingleProducerPerFifo ==
  \A t \in Threads : InPushSamples(t) => t = Producer(locals[t].fifo)

\* C6: indexW grows only after the copy, so every short below a value of
\* indexW that the consumer can observe is stored in the ring
C6_IndexWCoversStoredFrames ==
  [][\A f \in Fifos :
       \A k \in 0 .. U32(m_indexW'[f] - m_indexW[f]) - 1 :
         m_buffer'[f][AndMask(m_indexW[f] + k)] = U32(m_indexW[f] + k)]_vars

\* ==== the samples a MixerFifo::Mix writes ==================================
\* the big-endian short the producer pushed at stream position p, as the
\* u16 the ring stores; a slot never written (p = -1) holds 0xFFFF
PushedShort(p) == IF p < 0 THEN 65535 ELSE (p % 256) * 256 + ((p * 37 + 5) % 256)

Swap16(u) == (u % 256) * 256 + (u \div 256)
\* the s16 a u16 bit pattern is
Signed16(u) == IF u >= 32768 THEN u - 65536 ELSE u
\* std::round of n / d, d > 0: half away from zero
Round(n, d) == IF n >= 0 THEN (2 * n + d) \div (2 * d) ELSE 0 - ((d - 2 * n) \div (2 * d))
\* (x * vol) >> 8 on s32
VolumeScale(x, vol) == (x * vol) \div 256
\* std::clamp(x, SHRT_MIN, SHRT_MAX)
Clamp16(x) == Max(-32768, Min(32767, x))

\* y0 .. y3 of the coeffs table at fract = k / FD, times CoeffScale
CoeffScale == 2 * FD * FD * FD
Coeffs(k) ==
  <<0 - k * k * k + 2 * k * k * FD - k * FD * FD,
    3 * k * k * k - 5 * k * k * FD + 2 * FD * FD * FD,
    0 - 3 * k * k * k + 4 * k * k * FD + k * FD * FD,
    k * k * k - k * k * FD>>

\* interpolation_buffer[slot]: the swapped short of the ring
InterpolationShort(buf, slot) == Signed16(Swap16(PushedShort(buf[slot])))

\* s32(std::round(l_s_f)) or s32(std::round(r_s_f)) for the frame at indexR,
\* read at channel offset ch
InterpolatedSample(buf, indexR, direction, fract, ch) ==
  Round(Coeffs(fract)[1] * InterpolationShort(buf, TapSlot(indexR, direction, 0, ch))
        + Coeffs(fract)[2] * InterpolationShort(buf, TapSlot(indexR, direction, 1, ch))
        + Coeffs(fract)[3] * InterpolationShort(buf, TapSlot(indexR, direction, 2, ch))
        + Coeffs(fract)[4] * InterpolationShort(buf, TapSlot(indexR, direction, 3, ch)),
        CoeffScale)

\* samples[i * NC + 0] and samples[i * NC + 1] after the frame at tap was
\* added to prev: the left sample is read at channel offset 1
OutputFrame(buf, tap, direction, lVolume, rVolume, prev) ==
  <<Clamp16(prev[1] + VolumeScale(InterpolatedSample(buf, tap.indexR, direction,
                                                     tap.fract, 1), lVolume)),
    Clamp16(prev[2] + VolumeScale(InterpolatedSample(buf, tap.indexR, direction,
                                                     tap.fract, 0), rVolume))>>

\* the forward frames a Mix call with result m writes to a zeroed buffer
ForwardFrames(f, m, lVolume, rVolume) ==
  [j \in 1 .. m.actual |-> OutputFrame(m_buffer[f], m.taps[j], 1, lVolume, rVolume, <<0, 0>>)]

\* ---- one FIFO whose input rate is the output rate, mixed at speed 1 -------
FramesMod == U32Mod \div NC

InitUnit ==
  /\ InitCommon
  /\ paused = FALSE
  /\ m_stereo = TRUE
  /\ fifo_under_test \in {"dma", "wiimote"}
  /\ InitParts

\* MixerFifo::Mix with GetCurrentSpeed() = 1.0
UnitMix(num_samples, stretching) ==
  LET f == fifo_under_test
  IN  \E m \in {MixerFifoMix(f, num_samples, stretching, FD)} :
      /\ m_target_speed' = FD
      /\ m_indexR' = [m_indexR EXCEPT ![f] = m.indexR]
      /\ m_fract' = [m_fract EXCEPT ![f] = m.fract]
      /\ m_backwards_indexR' = [m_backwards_indexR EXCEPT ![f] = m.backwards_indexR]
      /\ m_backwards_fract' = [m_backwards_fract EXCEPT ![f] = m.backwards_fract]
      /\ m_last_output_samples' =
            [m_last_output_samples EXCEPT ![f] = m.last_output_samples]
      /\ last_mix' = MixSummary(m)
      /\ history' =
           [clean |-> history.clean /\ m.actual = num_samples,
            played |-> IF history.clean /\ m.actual = num_samples
                       THEN (history.played + m.actual) % FramesMod ELSE 0,
            last_fwd |-> IF m.actual > 0
                         THEN U32(m.taps[m.actual].indexR + NC) \div NC
                         ELSE history.last_fwd]
      /\ UNCHANGED <<m_indexW, m_buffer, m_input_sample_rate, m_currently_pushed,
                     m_last_push_timer, conv_saturates, fifo_under_test,
                     cubeb, wave, mixed, policy, speaker, pulse, volumes, ciface,
                     mixer_vars, callback_vars, osd_vars, thread_vars>>

NextUnit ==
  \/ \E n \in 1 .. MaxPush : FifoPushSamples(n)
  \/ \E n \in 1 .. MaxN, st \in BOOLEAN : UnitMix(n, st)

SpecUnit == InitUnit /\ [][NextUnit]_vars

\* frames between the interpolated frame and the read position: tap 1
InterpolationDelay == 1

\* the pushed frame number q, byte-swapped, short by short as it was pushed
SwappedFrame(q) ==
  <<Signed16(Swap16(PushedShort(U32(q * NC)))),
    Signed16(Swap16(PushedShort(U32(q * NC + 1))))>>

\* the calls of a FIFO that never underran which do not underrun either
CleanCalls ==
  {c \in [n : 1 .. MaxN, stretching : BOOLEAN] :
     history.clean /\
     MixerFifoMix(fifo_under_test, c.n, c.stretching, FD).actual = c.n}

\* C11: at equal rates, speed 1, volume 256 and without underrun every frame
\* is produced at fract = 0 and output frame k is the byte-swapped pushed
\* frame k + InterpolationDelay, no frame skipped and none repeated (the left
\* output sample is read from the second short of the frame, the right one
\* from the first, lines 285-300: the pair is compared in that order)
C11_OutputIsSwappedInput ==
  \A c \in CleanCalls :
    LET f == fifo_under_test
        m == MixerFifoMix(f, c.n, c.stretching, FD)
    IN  \A j \in 1 .. c.n :
          /\ m.taps[j].fract = 0
          /\ ForwardFrames(f, m, 256, 256)[j][1] =
               SwappedFrame(history.played + j - 1 + InterpolationDelay)[2]
          /\ ForwardFrames(f, m, 256, 256)[j][2] =
               SwappedFrame(history.played + j - 1 + InterpolationDelay)[1]

\* several Mix calls without underrun produced more frames than the ring holds
C11_Witness == history.clean /\ history.played = FramesMod - 1 /\ last_mix.forward

\* the pushed frame a forward tap at read position indexR puts out
TapFrame(indexR) == U32(indexR + NC * InterpolationDelay) \div NC

\* the ring holds pushed frame q where that frame was stored, or nothing was
\* ever stored there
HoldsFrame(f, q) ==
  \/ /\ m_buffer[f][AndMask(q * NC)] = U32(q * NC)
     /\ m_buffer[f][AndMask(q * NC + 1)] = U32(q * NC + 1)
  \/ m_buffer[f][AndMask(q * NC)] = -1

MaxWrites == 2          \* writes into one short between two memsets

\* the shorts found at the four taps, the fract positions, the volumes set
TapValues == {-32768, 0, 32767}
Fracts == 0 .. FD - 1
SetVolume(volume) == volume + volume \div 128
Volumes == {SetVolume(v) : v \in {0, 128, 255}}

\* conversion of an int to the s16 the buffer holds
Store16(x) == ((x + 32768) % 65536) - 32768

\* std::clamp removed: the sum is converted as it is
UnclampedSum(sample, addend) == sample + addend

\* the sum std::clamp hands to the short
ClampedSum(sample, addend) == Clamp16(sample + addend)

\* l_s of a frame whose taps hold t at fract position k, scaled by vol
ScaledSample(t, k, vol) ==
  VolumeScale(Round(Coeffs(k)[1] * t[1] + Coeffs(k)[2] * t[2] +
                    Coeffs(k)[3] * t[3] + Coeffs(k)[4] * t[4], CoeffScale), vol)

\* the short after addend was added to it, and what is kept of the write
WriteSample(addend, last, by) ==
  [sample |-> Store16(ClampedSum(mixed.sample, addend)),
   was |-> mixed.sample, added |-> addend, last |-> last,
   writes |-> mixed.writes + 1, by |-> by]

\* CubicInterpolation produces one frame (lines 303-311)
SampleInterpolated(t, k, vol) ==
  /\ mixed.writes < MaxWrites
  /\ \E l_s \in {ScaledSample(t, k, vol)} :
        mixed' = WriteSample(l_s, l_s, "interpolated")
  /\ UNCHANGED <<fifo_vars, m_target_speed, conv_saturates, fifo_under_test,
                 last_mix, history, cubeb, wave, policy, speaker, pulse, volumes, ciface,
                 mixer_vars, callback_vars, osd_vars, thread_vars>>

\* the padding loop of Mix adds m_last_output_samples (lines 197-204)
SamplePadded ==
  /\ mixed.writes < MaxWrites
  /\ mixed' = WriteSample(mixed.last, mixed.last, "padded")
  /\ UNCHANGED <<fifo_vars, m_target_speed, conv_saturates, fifo_under_test,
                 last_mix, history, cubeb, wave, policy, speaker, pulse, volumes, ciface,
                 mixer_vars, callback_vars, osd_vars, thread_vars>>

\* Mixer::Mix clears the buffer before the FIFOs are mixed into it
SampleCleared ==
  /\ mixed.writes > 0
  /\ mixed' = [mixed EXCEPT !.sample = 0, !.was = 0, !.added = 0, !.writes = 0,
                            !.by = "memset"]
  /\ UNCHANGED <<fifo_vars, m_target_speed, conv_saturates, fifo_under_test,
                 last_mix, history, cubeb, wave, policy, speaker, pulse, volumes, ciface,
                 mixer_vars, callback_vars, osd_vars, thread_vars>>

InitSample ==
  /\ InitCommon
  /\ paused = FALSE
  /\ m_stereo = TRUE
  /\ fifo_under_test = "dma"
  /\ InitParts

NextSample ==
  \/ \E t \in [1 .. 4 -> TapValues], k \in Fracts, vol \in Volumes :
        SampleInterpolated(t, k, vol)
  \/ SamplePadded
  \/ SampleCleared

SpecSample == InitSample /\ [][NextSample]_vars

\* C14: every short Mix writes is clamp(previous value + ((round(v) * vol)
\* >> 8), -32768, 32767), so it lies in the s16 range and never wraps
C14_WrittenSampleIsClampedSum ==
  /\ mixed.sample = Clamp16(mixed.was + mixed.added)
  /\ mixed.sample \in -32768 .. 32767

\* a second write pushed the sum of a short past the s16 range
C14_Witness ==
  /\ mixed.writes = 2
  /\ mixed.by = "padded"
  /\ mixed.was + mixed.added > 32767 \/ mixed.was + mixed.added < -32768

\* ---- CubebStream: SetRunning, Update and the data callback ------------------
\* cubeb.pc is where the thread inside SetRunning stands ("idle": no thread is
\* inside), cubeb.running its argument, cubeb.caller who called it;
\* cubeb.last_update is what the last Update that found the flag set did
SampleRates == {44100, 48000}

\* all variables but cubeb
not_backend_vars == <<fifo_vars, m_target_speed, conv_saturates, fifo_under_test, last_mix, history, wave, mixed, policy, speaker, pulse, volumes, ciface, mixer_vars, callback_vars, osd_vars, thread_vars>>

\* UpdateSettings called whatever the argument of SetRunning is
UpdatesSettingsAlways(running) == TRUE

\* the test of line 46: SetRunning calls Mixer::UpdateSettings when starting
UpdatesSettings(running) == running

\* SetRunning(running) up to its first call: lines 42-46
SetRunningEnter(running, caller, last_update) ==
  [cubeb EXCEPT !.m_should_restart = FALSE,
                !.pc = IF UpdatesSettings(running) THEN "update_settings"
                       ELSE IF running THEN "stream_init" ELSE "stream_stop",
                !.running = running, !.caller = caller, !.last_update = last_update]

\* AudioCommon::SetSoundStreamRunning(running) called by the host thread
\* under the mutex of AudioCommon; a call that changes nothing returns at once
HostSetSoundStreamRunning(running) ==
  /\ cubeb.pc = "idle"
  /\ cubeb.s_sound_stream_running # running
  /\ cubeb' = SetRunningEnter(running, "host", cubeb.last_update)
  /\ UNCHANGED not_backend_vars

\* Mixer::UpdateSettings(sample_rate) runs and returns
UpdateSettings(sample_rate) ==
  /\ cubeb.pc = "update_settings"
  /\ cubeb' = [cubeb EXCEPT !.m_sample_rate = sample_rate,
                            !.pc = IF cubeb.running THEN "stream_init" ELSE "stream_stop"]
  /\ UNCHANGED not_backend_vars

\* what an Update that is over leaves in last_update
UpdateOver(u, flag, running) == [u EXCEPT !.flag_after = flag, !.running_after = running]

\* lines 52-98: cubeb_stream_init and cubeb_stream_start
StreamStart(init_ok, start_ok) ==
  /\ cubeb.pc = "stream_init"
  /\ init_ok \/ ~start_ok
  /\ LET ok == init_ok /\ start_ok
         running == ok \/ cubeb.m_running
         u == [cubeb.last_update EXCEPT !.start = IF ok THEN "ok" ELSE "failed"]
     IN  cubeb' = [cubeb EXCEPT
                     !.m_stream = IF ok THEN "started"
                                  ELSE IF init_ok THEN "initialised" ELSE @,
                     !.m_running = running,
                     !.s_sound_stream_running = ok \/ @,
                     !.pc = "idle", !.caller = "none",
                     !.last_update = IF cubeb.caller = "update"
                                     THEN UpdateOver(u, cubeb.m_should_restart, running)
                                     ELSE @]
  /\ UNCHANGED not_backend_vars

\* lines 102-110: cubeb_stream_stop, which returns when no callback runs any
\* more, and cubeb_stream_destroy; an Update whose stop succeeded goes on to
\* AudioCommon::SetSoundStreamRunning(true)
StreamStop(result_ok) ==
  /\ cubeb.pc = "stream_stop"
  /\ ~cubeb.in_callback
  /\ LET stopped == [cubeb EXCEPT !.m_stream = "none",
                                  !.m_running = IF result_ok THEN FALSE ELSE @,
                                  !.s_sound_stream_running = IF result_ok THEN FALSE ELSE @,
                                  !.pc = IF cubeb.caller = "destructor" THEN "destroyed"
                                         ELSE "idle",
                                  !.caller = "none",
                                  !.stale = @ \/ cubeb.m_stream = "none"]
         u == [cubeb.last_update EXCEPT !.stop = IF result_ok THEN "ok" ELSE "failed"]
     IN  cubeb' =
           IF cubeb.caller # "update" THEN stopped
           ELSE IF result_ok
                THEN [stopped EXCEPT
                        !.pc = IF UpdatesSettings(TRUE) THEN "update_settings"
                               ELSE "stream_init",
                        !.running = TRUE, !.caller = "update", !.last_update = u]
                ELSE [stopped EXCEPT
                        !.last_update = UpdateOver(u, stopped.m_should_restart,
                                                   stopped.m_running)]
  /\ UNCHANGED not_backend_vars

\* CubebStream::~CubebStream: SetRunning(false) if m_running, then the object
\* is gone
StreamDestructor ==
  /\ cubeb.pc = "idle"
  /\ ~cubeb.in_callback
  /\ cubeb' = IF cubeb.m_running
              THEN SetRunningEnter(FALSE, "destructor", cubeb.last_update)
              ELSE [cubeb EXCEPT !.pc = "destroyed"]
  /\ UNCHANGED not_backend_vars

\* the device is invalidated: the backend asks for a restart
SetShouldRestart ==
  /\ ~cubeb.m_should_restart
  /\ cubeb.pc = "idle"
  /\ cubeb' = [cubeb EXCEPT !.m_should_restart = TRUE]
  /\ UNCHANGED not_backend_vars

\* CubebStream::Update that finds m_should_restart set: lines 127-147
Update ==
  /\ cubeb.pc = "idle"
  /\ cubeb.m_should_restart
  /\ cubeb' = SetRunningEnter(~cubeb.m_running, "update",
                              [NoUpdate EXCEPT !.flagged = TRUE,
                                               !.was_running = cubeb.m_running])
  /\ UNCHANGED not_backend_vars

\* the backend thread enters and leaves DataCallback of a started stream
StreamCallbackEnter ==
  /\ cubeb.m_stream = "started"
  /\ ~cubeb.in_callback
  /\ cubeb.callbacks < MaxCallbacks
  /\ cubeb' = [cubeb EXCEPT !.in_callback = TRUE]
  /\ UNCHANGED not_backend_vars

StreamCallbackLeave ==
  /\ cubeb.in_callback
  /\ cubeb' = [cubeb EXCEPT !.in_callback = FALSE, !.callbacks = @ + 1]
  /\ UNCHANGED not_backend_vars

InitBackendSpec ==
  /\ InitCommon
  /\ paused = FALSE
  /\ m_stereo = TRUE
  /\ fifo_under_test = "dma"
  /\ InitParts

NextBackend ==
  \/ \E running \in BOOLEAN : HostSetSoundStreamRunning(running)
  \/ \E sample_rate \in SampleRates : UpdateSettings(sample_rate)
  \/ \E init_ok \in BOOLEAN, start_ok \in BOOLEAN : StreamStart(init_ok, start_ok)
  \/ \E result_ok \in BOOLEAN : StreamStop(result_ok)
  \/ StreamDestructor
  \/ SetShouldRestart
  \/ Update
  \/ StreamCallbackEnter
  \/ StreamCallbackLeave

SpecBackend == InitBackendSpec /\ [][NextBackend]_vars

\* C17: an Update that finds the should-restart flag set stops the stream
\* (when it runs) and then starts it; if the restart fails the flag is set
\* when Update is over, and after a start that succeeded the stream runs
C17_UpdateRestartsOrKeepsFlag ==
  LET u == cubeb.last_update
  IN  (u.flagged /\ cubeb.caller # "update") =>
        /\ u.was_running => u.stop # "none"
        /\ u.start # "none"
        /\ (u.stop = "failed" \/ u.start = "failed") => u.flag_after
        /\ u.start = "ok" => u.running_after

\* C18: while Mixer::UpdateSettings runs no stream is started and no data
\* callback is running
C18_UpdateSettingsOutsideCallbacks ==
  cubeb.pc = "update_settings" =>
    /\ cubeb.m_stream # "started"
    /\ ~cubeb.in_callback

\* UpdateSettings runs for a restart, after callbacks of the stopped stream
C18_Witness ==
  /\ cubeb.pc = "update_settings"
  /\ cubeb.callbacks > 0
  /\ cubeb.caller = "update"

\* ---- WaveFileWriter ---------------------------------------------------------
BUFFER_SIZE == 4        \* shorts conv_buffer holds
MaxWaveFrames == 4      \* frames pushed to one writer in one behaviour
MaxFiles == 3           \* files one writer opens in one behaviour

WaveRates == {32000, 48000}

\* all variables but wave
not_wave_vars == <<fifo_vars, m_target_speed, conv_saturates, fifo_under_test, last_mix, history, cubeb, mixed, policy, speaker, pulse, volumes, ciface, mixer_vars, callback_vars, osd_vars, thread_vars>>

\* the header Start writes: the sizes are placeholders
WaveHeader(index, sample_rate) ==
  [index |-> index, sample_rate |-> sample_rate, riff |-> 100 * 1000 * 1000,
   data |-> 100 * 1000 * 1000 - 32, frames |-> <<>>, closed |-> FALSE]

\* WaveFileWriter::Start on writer w; can_open is whether the file can be
\* deleted if it exists and opened for writing
WaveFileStart(w, sample_rate, can_open) ==
  IF ~can_open \/ w.file_open
  THEN [w |-> w, ok |-> FALSE]
  ELSE [w |-> [w EXCEPT !.file_open = TRUE, !.audio_size = 0,
                        !.current_sample_rate = sample_rate,
                        !.files = Append(@, WaveHeader(w.file_index, sample_rate))],
        ok |-> TRUE]

\* WaveFileWriter::Stop on writer w: the seeks and writes fail on a closed file
WaveFileStop(w) ==
  IF w.file_open
  THEN [w EXCEPT !.files[Len(w.files)] =
                    [@ EXCEPT !.riff = w.audio_size + 36, !.data = w.audio_size,
                              !.closed = TRUE],
                 !.file_open = FALSE]
  ELSE w

\* the block of count frames pushed when first frames were pushed before:
\* zeros when silent
SampleData(first, count, silent) ==
  [i \in 1 .. count |->
     IF silent THEN <<0, 0>>
     ELSE <<PushedShort((first + i - 1) * 2), PushedShort((first + i - 1) * 2 + 1)>>]

\* lines 152-157: the two shorts of a frame exchanged and byte-swapped
ConvBuffer(sample_data) ==
  [i \in 1 .. Len(sample_data) |->
     <<Swap16(sample_data[i][2]), Swap16(sample_data[i][1])>>]

\* lines 141-150: a push at another rate closes the file and starts the next
WaveSwitch(w, sample_rate, can_open) ==
  IF sample_rate # w.current_sample_rate
  THEN WaveFileStart([WaveFileStop(w) EXCEPT !.file_index = @ + 1,
                                            !.current_sample_rate = sample_rate],
                     sample_rate, can_open)
  ELSE [w |-> w, ok |-> TRUE]

\* lines 152-160 on writer w; a block of more than BUFFER_SIZE / 2 frames is
\* written past the end of conv_buffer, which may leave any value in the
\* members behind it: clobber holds the values they have afterwards
WaveWrite(w, sample_data, clobber) ==
  LET c == IF Len(sample_data) > BUFFER_SIZE \div 2
           THEN [w EXCEPT !.current_sample_rate = clobber.current_sample_rate,
                          !.file_index = clobber.file_index]
           ELSE w
  IN  [c EXCEPT !.files = IF c.file_open
                          THEN [@ EXCEPT ![Len(@)].frames = @ \o ConvBuffer(sample_data)]
                          ELSE @,
                !.audio_size = @ + Len(sample_data) * 4]

\* WaveFileWriter::AddStereoSamplesBE(sample_data, count, sample_rate) on w
AddStereoSamplesBE(w, sample_data, sample_rate, can_open, clobber) ==
  IF w.skip_silence /\ \A i \in 1 .. Len(sample_data) : sample_data[i] = <<0, 0>>
  THEN w
  ELSE LET sw == WaveSwitch(w, sample_rate, can_open)
       IN  IF sw.ok THEN WaveWrite(sw.w, sample_data, clobber) ELSE sw.w

\* the values the members behind conv_buffer can have after a push: their
\* own when the block fits, any when it does not
Clobbers(count) ==
  IF count > BUFFER_SIZE \div 2
  THEN [current_sample_rate : WaveRates \cup {0}, file_index : 0 .. MaxFiles]
  ELSE {[current_sample_rate |-> 0, file_index |-> 0]}

\* Mixer::StartLogDSPAudio: Start, and on success the flag and SetSkipSilence;
\* skip is the setting of skip_silence the writer is then used with
WaveStart(sample_rate, can_open, skip) ==
  /\ ~wave.logging
  /\ Len(wave.files) < MaxFiles
  /\ \E st \in {WaveFileStart(wave, sample_rate, can_open)} :
       wave' = IF st.ok
               THEN [st.w EXCEPT !.logging = TRUE, !.skip_silence = skip,
                                 !.session = [NoSession EXCEPT
                                                !.sample_rate = sample_rate,
                                                !.first = Len(st.w.files)]]
               ELSE [WaveFileStop(st.w) EXCEPT !.session = NoSession]
  /\ UNCHANGED not_wave_vars

\* Mixer::PushDMASamples: the push to the DMA FIFO and, while
\* m_log_dsp_audio is set, AddStereoSamplesBE on the writer
WavePush(count, silent, sample_rate, can_open, clobber) ==
  /\ wave.pushed + count <= MaxWaveFrames
  /\ Len(wave.files) < MaxFiles
  /\ \E p \in {PushSamples("dma", m_indexW["dma"], m_buffer["dma"], count)} :
       /\ m_indexW' = [m_indexW EXCEPT !["dma"] = p.indexW]
       /\ m_buffer' = [m_buffer EXCEPT !["dma"] = p.buffer]
  /\ LET sample_data == SampleData(wave.pushed, count, silent)
         skipped == wave.skip_silence /\ silent
         w == AddStereoSamplesBE(wave, sample_data, sample_rate, can_open, clobber)
     IN  wave' = IF wave.logging
                 THEN [w EXCEPT !.pushed = @ + count,
                                !.session.in = IF skipped THEN @ ELSE @ \o sample_data,
                                !.session.same_rate =
                                   @ /\ (skipped \/ sample_rate = wave.session.sample_rate)]
                 ELSE [wave EXCEPT !.pushed = @ + count]
  /\ UNCHANGED <<m_indexR, m_fract, m_backwards_indexR, m_backwards_fract,
                 m_last_output_samples, m_input_sample_rate, m_currently_pushed,
                 m_last_push_timer, m_target_speed, conv_saturates, fifo_under_test,
                 last_mix, history, cubeb, mixed, policy, speaker, pulse, volumes, ciface,
                 mixer_vars, callback_vars, osd_vars, thread_vars>>

\* Mixer::StopLogDSPAudio
WaveStop ==
  /\ wave.logging
  /\ wave' = [WaveFileStop(wave) EXCEPT !.logging = FALSE, !.session.stopped = TRUE]
  /\ UNCHANGED not_wave_vars

InitWaveSpec ==
  /\ InitCommon
  /\ paused = FALSE
  /\ m_stereo = TRUE
  /\ fifo_under_test = "dma"
  /\ InitParts

NextWave ==
  \/ \E r \in WaveRates, can_open \in BOOLEAN, skip \in BOOLEAN : WaveStart(r, can_open, skip)
  \/ \E count \in 1 .. BUFFER_SIZE \div 2 + 1, silent \in BOOLEAN, r \in WaveRates,
        can_open \in BOOLEAN :
        \E clobber \in Clobbers(count) : WavePush(count, silent, r, can_open, clobber)
  \/ WaveStop

SpecWave == InitWaveSpec /\ [][NextWave]_vars

\* C19: after Start(file, R), pushes at rate R that write N frames in total
\* and Stop, the file has 4N at offset 40, 4N + 36 at offset 4, the rate R
\* and as k-th frame (swap16(in[2k+1]), swap16(in[2k])); blocks skipped as
\* silence do not count
C19_WaveRoundTrip ==
  LET se == wave.session
      N == Len(se.in)
  IN  (se.stopped /\ se.same_rate) =>
        LET f == wave.files[se.first]
        IN  /\ f.closed
            /\ f.data = 4 * N
            /\ f.riff = 4 * N + 36
            /\ f.sample_rate = se.sample_rate
            /\ f.frames = [k \in 1 .. N |->
                             <<Swap16(se.in[k][2]), Swap16(se.in[k][1])>>]

\* C20: a push (not skipped as silence) at another rate than the file's
\* finalises the file first, raises the file index by exactly 1, starts a
\* new file at the new rate and writes its frames to the new file only
C20_RateChangeStartsNextFile ==
  [][\A count \in 1 .. BUFFER_SIZE \div 2 + 1, silent \in BOOLEAN, r \in WaveRates,
       can_open \in BOOLEAN :
       \A clobber \in Clobbers(count) :
         (/\ WavePush(count, silent, r, can_open, clobber)
          /\ wave.logging /\ wave.file_open
          /\ r # wave.current_sample_rate
          /\ ~(wave.skip_silence /\ silent)) =>
           LET old == wave.files[Len(wave.files)]
               was == wave'.files[Len(wave.files)]
               new == wave'.files[Len(wave'.files)]
           IN  /\ Len(wave'.files) = Len(wave.files) + 1
               /\ was = [old EXCEPT !.closed = TRUE, !.data = wave.audio_size,
                                    !.riff = wave.audio_size + 36]
               /\ wave'.file_index = wave.file_index + 1
               /\ new.index = wave.file_index + 1
               /\ new.sample_rate = r
               /\ wave'.file_open /\ ~new.closed
               /\ new.frames = ConvBuffer(SampleData(wave.pushed, count, silent))
               /\ wave'.audio_size = 4 * count]_vars

\* every push Mixer::PushDMASamples can make in this state
WavePushes ==
  {x \in [count : 1 .. BUFFER_SIZE \div 2 + 1, silent : BOOLEAN, rate : WaveRates,
          can_open : BOOLEAN, clobber : Clobbers(BUFFER_SIZE \div 2 + 1)] :
     x.clobber \in Clobbers(x.count)}

\* C21: a failed Start disables dumping: the logging flag is false after a
\* StartLogDSPAudio whose Start fails and after a push whose reopening
\* fails; while no file is open no push is counted or written; and every
\* push leaves in the FIFO what PushSamples alone leaves
C21_FailedStartDisablesDumping ==
  [][/\ \A r \in WaveRates, skip \in BOOLEAN :
          WaveStart(r, FALSE, skip) => ~wave'.logging
     /\ \A x \in WavePushes :
          WavePush(x.count, x.silent, x.rate, x.can_open, x.clobber) =>
            /\ ~wave'.file_open => ~wave'.logging
            /\ ~wave.file_open => /\ wave'.audio_size = wave.audio_size
                                  /\ wave'.files = wave.files
            /\ m_indexW'["dma"] =
                  PushSamples("dma", m_indexW["dma"], m_buffer["dma"], x.count).indexW
            /\ m_buffer'["dma"] =
                  PushSamples("dma", m_indexW["dma"], m_buffer["dma"], x.count).buffer]_vars

\* ==== the speed, latency and stretching policy of Mixer::Mix ================
MaxMixCalls == 3        \* Mixer::Mix calls in one behaviour
MaxNegatives == 3       \* negative UpdatePush calls counted after an activation

\* what m_dma_speed reports: on speed, slow, fast, on speed again with the
\* average just below and exactly at emulation_speed * (1 - FallbackDelta2),
\* and fast with the average still below it
PolicyReadings ==
  {[last_speed |-> FD, average_speed |-> FD * SpeedScale, cached_speed |-> FD],
   [last_speed |-> FD \div 2, average_speed |-> (FD \div 2) * SpeedScale,
    cached_speed |-> FD \div 2],
   [last_speed |-> 2 * FD, average_speed |-> FD * SpeedScale, cached_speed |-> FD],
   [last_speed |-> FD, average_speed |-> FD * SpeedScale - FD - 1,
    cached_speed |-> FD \div 2],
   [last_speed |-> FD, average_speed |-> FD * SpeedScale - FD, cached_speed |-> FD],
   [last_speed |-> 2 * FD, average_speed |-> FD * SpeedScale - FD - 1,
    cached_speed |-> FD \div 2]}

\* what the stretcher reports to a call of num_samples frames: empty, giving
\* its last frames, and holding a latency between target and max or above max
PolicyStretcherReadings(num_samples) ==
  {[processed_latency |-> 0, acceptable_latency |-> TimeOf(num_samples, FD),
    received |-> r] : r \in {0, num_samples - 1}}
  \cup {[processed_latency |-> l, acceptable_latency |-> TimeOf(num_samples, FD),
         received |-> num_samples] :
          l \in {(3 * MaxLatency * FD) \div 4, 2 * MaxLatency * FD}}

\* the inputs of one Mixer::Mix call that the state lets matter
MixInputs ==
  {c \in [n : 1 .. MaxN, trk : PolicyReadings, str : PolicyStretcherReadings(0)] : FALSE}
  \cup UNION {{[n |-> n, trk |-> trk, str |-> str] :
                 trk \in PolicyReadings,
                 str \in {x \in PolicyStretcherReadings(n) :
                            (~policy.cfg.audio_stretch /\ ~m_stretching) =>
                              (x.processed_latency = 0 /\ x.received = 0)}} :
              n \in 1 .. MaxN}

\* what a Mixer::Mix call leaves for the properties
MixCallRecord(c, mix) ==
  [n |-> c.n, ran |-> TRUE,
   frame_limiter |-> policy.cfg.emulation_speed > 0 /\ ~policy.cfg.throttler_disabled,
   tolerance |-> policy.cfg.tolerance,
   emulation_speed |-> policy.cfg.emulation_speed,
   last_speed |-> c.trk.last_speed, average_speed |-> c.trk.average_speed,
   cached_speed |-> c.trk.cached_speed,
   behind_was |-> m_behind_target_speed, time_was |-> m_time_behind_target_speed,
   catching_was |-> m_latency_catching_up, stretching_was |-> m_stretching,
   audio_stretch |-> policy.cfg.audio_stretch,
   base_speed |-> mix.base_speed, tempo |-> mix.tempo,
   over_max |-> mix.over_max, over_target |-> mix.over_target, clear |-> mix.clear,
   available |-> mix.available, mixed_for |-> mix.mixed_for,
   stretcher_in |-> mix.stretcher_in, stretcher_out |-> mix.stretcher_out,
   received |-> mix.received, drained |-> c.str.processed_latency <= 0,
   extent |-> mix.extent,
   frames |-> mix.samples]

\* Mixer::Mix(samples, n) called by the backend, with the OSD messages it posts
MixCall(c) ==
  /\ policy.calls < MaxMixCalls
  /\ \E mix \in {MixerMix(c.n, policy.cfg, c.trk, c.str)} :
       /\ mix.time_behind_target_speed <= MaxBehindTime
       /\ m_target_speed' = mix.target_speed
       /\ m_behind_target_speed' = mix.behind_target_speed
       /\ m_time_behind_target_speed' = mix.time_behind_target_speed
       /\ m_time_at_custom_speed' = mix.time_at_custom_speed
       /\ m_latency_catching_up' = mix.latency_catching_up
       /\ m_stretching' = mix.stretching
       /\ m_indexR' = [f \in Fifos |-> mix.mixes[f].indexR]
       /\ m_fract' = [f \in Fifos |-> mix.mixes[f].fract]
       /\ m_backwards_indexR' = [f \in Fifos |-> mix.mixes[f].backwards_indexR]
       /\ m_backwards_fract' = [f \in Fifos |-> mix.mixes[f].backwards_fract]
       /\ m_last_output_samples' = [f \in Fifos |-> mix.mixes[f].last_output_samples]
       /\ out' = mix.samples
       /\ mix_return' = mix.ret
       /\ s_messages' = s_messages \cup mix.osd
       /\ policy' = [policy EXCEPT !.calls = @ + 1,
                                   !.clears = @ + (IF mix.clear THEN 1 ELSE 0),
                                   !.last = MixCallRecord(c, mix)]
  /\ UNCHANGED <<m_indexW, m_buffer, m_input_sample_rate, m_currently_pushed,
                 m_last_push_timer, conv_saturates, fifo_under_test, last_mix,
                 paused, m_stereo, audio_pc, pending, callbacks, s_messages_mutex,
                 thread_vars, history, cubeb, wave, mixed, speaker, pulse, volumes, ciface>>

\* the user changes the audio settings in SConfig
SetConfig(cfg) ==
  /\ cfg # policy.cfg
  /\ policy' = [policy EXCEPT !.cfg = cfg]
  /\ UNCHANGED <<fifo_vars, m_target_speed, conv_saturates, fifo_under_test, last_mix,
                 mixer_vars, callback_vars, osd_vars, thread_vars,
                 history, cubeb, wave, mixed, speaker, pulse, volumes, ciface>>

\* what a push leaves for the properties
PushRecord(kind, time, sample_rate, u, first, samples) ==
  [kind |-> kind, time |-> time, timer_was |-> m_last_push_timer["wiimote"],
   pushed_was |-> m_currently_pushed["wiimote"],
   free_was |-> MAX_SAMPLES -
                  SamplesDifferenceAt(sample_rate, m_indexW["wiimote"], m_indexR["wiimote"],
                                      m_fract["wiimote"], m_target_speed) \div NC,
   silence |-> u.pushed, first |-> first, samples |-> samples,
   audio_stretch |-> policy.cfg.audio_stretch, rate |-> sample_rate]

\* Mixer::PushWiimoteSpeakerSamples(index, samples, num_samples, sample_rate),
\* the volumes of the FIFO left to its caller
PushSpeakerSamples(num_samples, sample_rate) ==
  LET f == "wiimote"
      n == Min(num_samples, MAX_SAMPLES)
      time == TimeOf(n, sample_rate)
  IN  \E u \in {UpdatePushAt(f, sample_rate, time, policy.cfg.audio_stretch)} :
      \E p \in {PushSamplesAt(f, sample_rate, u.indexW, u.buffer, n)} :
        /\ speaker.enabled
        /\ m_input_sample_rate' = [m_input_sample_rate EXCEPT ![f] = sample_rate]
        /\ m_last_push_timer' = [m_last_push_timer EXCEPT ![f] = u.timer]
        /\ m_currently_pushed' = [m_currently_pushed EXCEPT ![f] = u.currently_pushed]
        /\ m_indexW' = [m_indexW EXCEPT ![f] = p.indexW]
        /\ m_buffer' = [m_buffer EXCEPT ![f] = p.buffer]
        /\ speaker' = [speaker EXCEPT
                         !.negatives = IF u.currently_pushed /\ ~m_currently_pushed[f]
                                       THEN 0 ELSE @,
                         !.last = PushRecord("speaker", time, sample_rate, u,
                                             u.indexW, p.count)]
        /\ UNCHANGED <<m_indexR, m_fract, m_backwards_indexR, m_backwards_fract,
                       m_last_output_samples, m_target_speed, conv_saturates,
                       fifo_under_test, last_mix, mixer_vars, callback_vars, osd_vars,
                       thread_vars, history, cubeb, wave, mixed, policy, pulse, ciface>>

PushWiimoteSpeakerSamples(num_samples, sample_rate) ==
  /\ PushSpeakerSamples(num_samples, sample_rate)
  /\ UNCHANGED volumes

\* Mixer::PushStreamingSamples(samples, num_samples), m_log_dtk_audio not set
PushStreamingSamples(num_samples) ==
  LET f == "wiimote"
      time == 0 - TimeOf(num_samples, m_input_sample_rate["dma"])
  IN  \E u \in {UpdatePush(f, time, policy.cfg.audio_stretch)},
         p \in {PushSamples("streaming", m_indexW["streaming"], m_buffer["streaming"],
                            num_samples)} :
        /\ m_last_push_timer' = [m_last_push_timer EXCEPT ![f] = u.timer]
        /\ m_currently_pushed' = [m_currently_pushed EXCEPT ![f] = u.currently_pushed]
        /\ m_indexW' = [m_indexW EXCEPT !["streaming"] = p.indexW, ![f] = u.indexW]
        /\ m_buffer' = [m_buffer EXCEPT !["streaming"] = p.buffer, ![f] = u.buffer]
        /\ speaker' = [speaker EXCEPT
                         !.negatives = Min(@ + 1, MaxNegatives),
                         !.last = PushRecord("streaming", time, m_input_sample_rate[f], u,
                                             m_indexW[f], 0)]
        /\ UNCHANGED <<m_indexR, m_fract, m_backwards_indexR, m_backwards_fract,
                       m_last_output_samples, m_input_sample_rate, m_target_speed,
                       conv_saturates, fifo_under_test, last_mix, mixer_vars,
                       callback_vars, osd_vars, thread_vars,
                       history, cubeb, wave, mixed, policy, pulse, volumes, ciface>>

InitPolicySpec ==
  /\ InitCommon
  /\ paused = FALSE
  /\ m_stereo = TRUE
  /\ fifo_under_test = "dma"
  /\ InitParts

\* ---- the speed throttling: direct path, the FIFOs left alone --------------
ThrottleConfigs == {x \in Settings : ~x.audio_stretch}

NextThrottle ==
  \/ \E cfg \in ThrottleConfigs : SetConfig(cfg)
  \/ \E c \in MixInputs : MixCall(c)

SpecThrottle == InitPolicySpec /\ [][NextThrottle]_vars

\* ---- latency catch-up and stretching: the tracker on speed ----------------
OnSpeed == [last_speed |-> FD, average_speed |-> FD * SpeedScale, cached_speed |-> FD]

NextCatchUp ==
  \/ \E cfg \in CallbackSettings : SetConfig(cfg)
  \/ \E c \in {x \in MixInputs : x.trk = OnSpeed} : MixCall(c)

SpecCatchUp == InitPolicySpec /\ [][NextCatchUp]_vars

\* ---- stretching with the three FIFOs pushed a ring at a time, the stretcher
\* giving nothing back yet
MaxStretchCalls == 2    \* Mixer::Mix calls in one behaviour with pushes

NextStretch ==
  \/ PushDMASamples(MAX_SAMPLES)
  \/ PushStreamingSamples(MAX_SAMPLES)
  \/ PushWiimoteSpeakerSamples(MAX_SAMPLES, FD)
  \/ \E cfg \in CallbackSettings : SetConfig(cfg)
  \/ \E c \in {x \in MixInputs : x.trk = OnSpeed /\ x.n = MaxN /\ x.str.received = 0
                              /\ policy.calls < MaxStretchCalls} :
       MixCall(c)

SpecStretch == InitPolicySpec /\ [][NextStretch]_vars

\* C22: in a throttled call time_behind_target_speed is never left negative;
\* behind_target_speed turns true only in a call whose last speed is below the
\* emulation speed and whose time behind exceeds the tolerance; it turns
\* false only in a call whose last speed is not below the emulation speed and
\* whose average is at least emulation_speed * (1 - 0.001), and that call
\* leaves time_behind_target_speed at 0
C22_BehindStateFollowsSpeed ==
  LET l == policy.last
  IN  (l.ran /\ l.frame_limiter) =>
        /\ m_time_behind_target_speed >= 0
        /\ (~l.behind_was /\ m_behind_target_speed) =>
              /\ l.last_speed < l.emulation_speed
              /\ m_time_behind_target_speed > l.tolerance
        /\ (l.behind_was /\ ~m_behind_target_speed) =>
              /\ l.last_speed >= l.emulation_speed
              /\ l.average_speed * 1000 >= l.emulation_speed * SpeedScale * 999
              /\ m_time_behind_target_speed = 0

\* a throttled call ended the behind state that an earlier call had begun
C22_Witness ==
  /\ policy.last.ran /\ policy.last.frame_limiter
  /\ policy.last.behind_was /\ ~m_behind_target_speed
  /\ policy.last.time_was > 0

\* C23: with the frame limiter on the target speed a call picks is the
\* tracker's cached average when the tolerance is 0 or when it is positive
\* and behind_target_speed is set, and the emulation speed otherwise; with a
\* negative tolerance it is the emulation speed whatever the behind state
C23_TargetSpeedFollowsTolerance ==
  LET l == policy.last
  IN  (l.ran /\ l.frame_limiter) =>
        /\ (l.tolerance = 0 \/ (l.tolerance > 0 /\ m_behind_target_speed))
             => l.base_speed = l.cached_speed
        /\ ~(l.tolerance = 0 \/ (l.tolerance > 0 /\ m_behind_target_speed))
             => l.base_speed = l.emulation_speed
        /\ l.tolerance < 0 => l.base_speed = l.emulation_speed

\* a throttled call with a negative tolerance that is behind the target speed
\* while the tracker's average differs from the emulation speed
C23_Witness ==
  /\ policy.last.ran /\ policy.last.frame_limiter
  /\ policy.last.tolerance < 0 /\ m_behind_target_speed
  /\ policy.last.cached_speed # policy.last.emulation_speed

C25_ClearOncePerEntry ==
  [][/\ policy'.calls = policy.calls + 1 =>
          /\ policy'.clears =
               policy.clears + (IF policy.cfg.audio_stretch /\ ~m_stretching THEN 1 ELSE 0)
          /\ policy.cfg.audio_stretch => m_stretching'
     /\ policy'.calls = policy.calls => m_stretching' = m_stretching]_vars

\* the second of two consecutive stretching calls did not clear the stretcher
C25_Witness ==
  /\ policy.clears = 1 /\ policy.calls >= 2
  /\ policy.last.audio_stretch /\ policy.last.stretching_was /\ ~policy.last.clear

\* the least element of a set of numbers
MinOf(S) == CHOOSE x \in S : \A y \in S : x <= y

\* C26: a stretching call mixes every FIFO for m frames, m being the least
\* AvailableSamples() of the DMA FIFO, the streaming FIFO and the remote
\* speaker FIFOs that are currently pushed; it pushes m frames to the
\* stretcher and asks it for the n frames of the call
C26_StretchingMixesAvailable ==
  [][(policy'.calls = policy.calls + 1 /\ policy.cfg.audio_stretch) =>
       LET m == MinOf({AvailableSamples(f, FD) :
                         f \in {"dma", "streaming"} \cup
                               {w \in {"wiimote"} : m_currently_pushed[w]}})
       IN  /\ policy'.last.mixed_for = m
           /\ policy'.last.stretcher_in = m
           /\ policy'.last.stretcher_out = policy'.last.n]_vars

\* a stretching call mixed frames while the remote speaker was pushed
C26_Witness ==
  /\ policy.last.ran /\ policy.last.audio_stretch /\ policy.last.mixed_for > 0
  /\ m_currently_pushed["wiimote"]

\* C27: turning stretching off leaves the mixer's stretching flag as it is;
\* a direct call that finds it set takes frames from the stretcher first and
\* lets the FIFOs fill the n - received frames behind them, touching no
\* more than n frames; the call clears the flag exactly if the stretcher's
\* processed latency is <= 0, and a direct call never sets it
C27_DrainAfterStretching ==
  [][/\ (policy'.cfg # policy.cfg) => m_stretching' = m_stretching
     /\ (policy'.calls = policy.calls + 1 /\ ~policy.cfg.audio_stretch) =>
          LET l == policy'.last
          IN  /\ ~m_stretching => ~m_stretching' /\ l.received = 0
              /\ m_stretching => m_stretching' = ~l.drained
              /\ l.received <= l.n
              /\ l.mixed_for = l.n - l.received
              /\ l.extent <= l.n
              /\ Len(l.frames) = l.n
              /\ \A i \in 1 .. l.n :
                   IF i <= l.received THEN l.frames[i] = "stretched"
                   ELSE l.frames[i] \in {"mixed", "zero"}]_vars

\* a direct call got some of its frames from the stretcher, let the FIFOs
\* fill the rest and cleared the stretching flag
C27_Witness ==
  /\ policy.last.ran /\ ~policy.last.audio_stretch /\ policy.last.stretching_was
  /\ policy.last.received > 0 /\ policy.last.received < policy.last.n
  /\ policy.last.frames[policy.last.n] = "mixed"
  /\ ~m_stretching

\* ==== push activity of a remote speaker's FIFO ==============================
\* the game stops sending speaker data: no PushWiimoteSpeakerSamples any more
SpeakerDisable ==
  /\ speaker.enabled
  /\ speaker' = [speaker EXCEPT !.enabled = FALSE]
  /\ UNCHANGED <<fifo_vars, m_target_speed, conv_saturates, fifo_under_test, last_mix,
                 mixer_vars, callback_vars, osd_vars, thread_vars,
                 history, cubeb, wave, mixed, policy, pulse, volumes, ciface>>

InitSpeakerSpec ==
  /\ InitCommon
  /\ paused = FALSE
  /\ m_stereo = TRUE
  /\ fifo_under_test = "wiimote"
  /\ InitParts

NextSpeaker ==
  \/ \E n \in 1 .. MaxPush, r \in InRates : PushWiimoteSpeakerSamples(n, r)
  \/ \E n \in 1 .. MaxPush : PushStreamingSamples(n)
  \/ \E cfg \in CallbackSettings : SetConfig(cfg)
  \/ SpeakerDisable

SpecSpeaker == InitSpeakerSpec /\ [][NextSpeaker]_vars

\* the pushes alone, the streaming source never stopping
NextSpeakerLive ==
  \/ \E n \in 1 .. MaxPush, r \in InRates : PushWiimoteSpeakerSamples(n, r)
  \/ \E n \in 1 .. MaxPush : PushStreamingSamples(n)
  \/ SpeakerDisable

SpecSpeakerLive ==
  /\ InitSpeakerSpec
  /\ [][NextSpeakerLive]_vars
  /\ WF_vars(\E n \in 1 .. MaxPush : PushStreamingSamples(n))

\* C28 as stated: a positive update raises the push timer by its time, a
\* negative update lowers it by its time
C28_TimerMovesByDelta ==
  [][/\ \A n \in 1 .. MaxPush, r \in InRates :
          PushWiimoteSpeakerSamples(n, r) =>
            m_last_push_timer'["wiimote"] = m_last_push_timer["wiimote"] + TimeOf(n, r)
     /\ \A n \in 1 .. MaxPush :
          PushStreamingSamples(n) =>
            m_last_push_timer'["wiimote"] =
              m_last_push_timer["wiimote"] - TimeOf(n, m_input_sample_rate["dma"])]_vars

\* C28 amended: a positive update sets the push timer to the larger of the
\* timer and its time; a negative update lowers a positive timer by its time
\* and leaves a timer that is not positive as it is
C28_TimerIsMaxOrCountdown ==
  [][/\ \A n \in 1 .. MaxPush, r \in InRates :
          PushWiimoteSpeakerSamples(n, r) =>
            /\ m_last_push_timer'["wiimote"] >= m_last_push_timer["wiimote"]
            /\ m_last_push_timer'["wiimote"] >= TimeOf(n, r)
            /\ m_last_push_timer'["wiimote"] \in
                 {m_last_push_timer["wiimote"], TimeOf(n, r)}
     /\ \A n \in 1 .. MaxPush :
          PushStreamingSamples(n) =>
            m_last_push_timer'["wiimote"] =
              IF m_last_push_timer["wiimote"] > 0
              THEN m_last_push_timer["wiimote"] - TimeOf(n, m_input_sample_rate["dma"])
              ELSE m_last_push_timer["wiimote"]]_vars

\* a speaker push shorter than the time the timer held left the timer alone
C28_Witness ==
  /\ speaker.last.kind = "speaker"
  /\ speaker.last.time > 0 /\ speaker.last.timer_was > speaker.last.time
  /\ m_last_push_timer["wiimote"] = speaker.last.timer_was

\* C29: a push that turns the remote speaker's FIFO from inactive to active
\* enqueues (max_latency / 2) * input_rate frames of silence, at most the
\* ring, and its samples behind them; the update that turns it from active to
\* inactive enqueues INTERP_SAMPLES + 1 frames of silence
C29_TransitionsEnqueueSilence ==
  [][/\ \A n \in 1 .. MaxPush, r \in InRates :
          (/\ PushWiimoteSpeakerSamples(n, r)
           /\ ~m_currently_pushed["wiimote"] /\ m_currently_pushed'["wiimote"]) =>
            /\ speaker'.last.silence = PrimingSamples(r)
            /\ speaker'.last.first =
                 U32(m_indexW["wiimote"] + PrimingSamples(r) * NC)
     /\ \A n \in 1 .. MaxPush :
          (/\ PushStreamingSamples(n)
           /\ m_currently_pushed["wiimote"] /\ ~m_currently_pushed'["wiimote"]) =>
            speaker'.last.silence = INTERP_SAMPLES + 1]_vars

\* C30: the FIFO stops being currently pushed only at a negative update that
\* is at least the second one since the positive update that made it
\* currently pushed; and once the speaker sends nothing any more while the
\* streaming source keeps pushing, the FIFO becomes not currently pushed
C30_TwoUpdatesThenInactive ==
  /\ [][(m_currently_pushed["wiimote"] /\ ~m_currently_pushed'["wiimote"]) =>
          (speaker'.last.kind = "streaming" /\ speaker'.negatives >= 2)]_vars
  /\ (~speaker.enabled ~> ~m_currently_pushed["wiimote"])

\* the second negative update after the speaker fell silent ended the
\* activity of its FIFO
C30_Witness ==
  /\ ~speaker.enabled /\ ~m_currently_pushed["wiimote"]
  /\ speaker.last.kind = "streaming" /\ speaker.last.pushed_was
  /\ speaker.negatives = 2

\* ==== the PulseAudio backend (PulseAudioStream.cpp) =======================
\* sizes are in bytes; a frame of the stream is channels * bytespersample
MaxLength == 50                     \* largest length a WriteCallback is asked for
SizeofS16 == 2
SizeofFloat == 4
SURROUND_CHANNELS == 6

\* the sample spec PulseInit builds from m_stereo and m_channels (95-115)
StreamFormat(stereo, channels) ==
  [channels |-> channels, bytespersample |-> IF stereo THEN SizeofS16 ELSE SizeofFloat]

\* the members after the fallback to stereo (143-151)
FallbackMembersKeepSampleSize(p) ==
  [p EXCEPT !.m_stereo = TRUE, !.m_channels = NC]
FallbackMembers(p) ==
  [p EXCEPT !.m_stereo = TRUE, !.m_channels = NC, !.m_bytespersample = SizeofS16]

\* PulseInit from the creation of the stream on; connect_ok and fallback_ok
\* are the results of the two pa_stream_connect_playback calls
PulseInitStream(p, connect_ok, fallback_ok) ==
  LET first == StreamFormat(p.m_stereo, p.m_channels)
      p1 == [p EXCEPT !.m_bytespersample = first.bytespersample,
                      !.attempts = <<[format |-> first, ok |-> connect_ok]>>]
      second == StreamFormat(TRUE, NC)
      p2 == [FallbackMembers(p1) EXCEPT
               !.attempts = Append(p1.attempts, [format |-> second, ok |-> fallback_ok])]
  IN  IF connect_ok THEN [p1 EXCEPT !.init = "true", !.connected = first]
      ELSE IF p.m_stereo THEN [p1 EXCEPT !.init = "false"]
      ELSE IF fallback_ok THEN [p2 EXCEPT !.init = "true", !.connected = second]
      ELSE [p2 EXCEPT !.init = "false"]

\* PulseAudio::Init with its call of PulseInit; context_ok is the outcome of
\* the connection to the server (77-88)
PulseAudioInit(dpl2, context_ok, connect_ok, fallback_ok) ==
  /\ pulse.init = "none"
  /\ LET p == [pulse EXCEPT !.m_stereo = ~dpl2,
                            !.m_channels = IF dpl2 THEN SURROUND_CHANNELS ELSE NC]
     IN  pulse' = IF context_ok THEN PulseInitStream(p, connect_ok, fallback_ok)
                  ELSE [p EXCEPT !.init = "false"]
  /\ UNCHANGED <<fifo_vars, m_target_speed, conv_saturates, fifo_under_test, last_mix,
                 mixer_vars, callback_vars, osd_vars, thread_vars,
                 history, cubeb, wave, mixed, policy, speaker, volumes, ciface>>

PulseSetRunning(running) ==
  /\ pulse.init = "true"
  /\ pulse' = [pulse EXCEPT !.m_running = running]
  /\ UNCHANGED <<fifo_vars, m_target_speed, conv_saturates, fifo_under_test, last_mix,
                 mixer_vars, callback_vars, osd_vars, thread_vars,
                 history, cubeb, wave, mixed, policy, speaker, volumes, ciface>>

\* what the buffer of pa_stream_begin_write holds when it is handed to
\* pa_stream_write: the region is not initialised by the library, fresh is
\* what it happens to hold; Mixer::Mix leaves it alone when paused (322) and
\* MixSurround clears it first (596)
BufferContent(p, frames, is_paused, fresh) ==
  IF ~p.m_running THEN fresh
  ELSE IF ~p.m_stereo THEN (IF is_paused \/ frames = 0 THEN "zeros" ELSE "mixed")
  ELSE IF is_paused \/ frames = 0 THEN fresh ELSE "mixed"

\* PulseAudio::WriteCallback(s, length); begin_ok is the result of
\* pa_stream_begin_write
PulseWriteCallback(length, begin_ok, is_paused, fresh) ==
  /\ pulse.init = "true"
  /\ LET bytes_per_frame == pulse.m_channels * pulse.m_bytespersample
         frames == length \div bytes_per_frame
         trunc_length == frames * bytes_per_frame
         call == IF ~pulse.m_running THEN "none"
                 ELSE IF pulse.m_stereo THEN "Mix" ELSE "MixSurround"
         mixed_bytes == IF call = "Mix" THEN frames * NC * SizeofS16
                        ELSE IF call = "MixSurround"
                        THEN frames * SURROUND_CHANNELS * SizeofFloat ELSE 0
     IN  pulse' = [pulse EXCEPT !.last =
           IF ~begin_ok
           THEN [NoWrite EXCEPT !.length = length, !.frames = frames,
                                !.trunc_length = trunc_length, !.running = pulse.m_running]
           ELSE [length |-> length, frames |-> frames, trunc_length |-> trunc_length,
                 submitted |-> TRUE, running |-> pulse.m_running, call |-> call,
                 mixed_bytes |-> mixed_bytes,
                 content |-> BufferContent(pulse, frames, is_paused, fresh)]]
  /\ UNCHANGED <<fifo_vars, m_target_speed, conv_saturates, fifo_under_test, last_mix,
                 mixer_vars, callback_vars, osd_vars, thread_vars,
                 history, cubeb, wave, mixed, policy, speaker, volumes, ciface>>

\* ~PulseAudio and PulseShutdown: the object is gone, another may be made
PulseShutdown ==
  /\ pulse.init # "none"
  /\ pulse' = NoPulse
  /\ UNCHANGED <<fifo_vars, m_target_speed, conv_saturates, fifo_under_test, last_mix,
                 mixer_vars, callback_vars, osd_vars, thread_vars,
                 history, cubeb, wave, mixed, policy, speaker, volumes, ciface>>

InitPulseSpec ==
  /\ InitCommon
  /\ InitParts
  /\ InitOsd
  /\ fifo_under_test = "dma"
  /\ m_target_speed = FD

NextPulse ==
  \/ \E dpl2, context_ok, connect_ok, fallback_ok \in BOOLEAN :
       PulseAudioInit(dpl2, context_ok, connect_ok, fallback_ok)
  \/ \E running \in BOOLEAN : PulseSetRunning(running)
  \/ \E length \in 0 .. MaxLength, begin_ok, is_paused \in BOOLEAN,
        fresh \in {"zeros", "garbage"} :
       PulseWriteCallback(length, begin_ok, is_paused, fresh)
  \/ PulseShutdown

SpecPulse == InitPulseSpec /\ [][NextPulse]_vars

\* C31: while m_running is false, every buffer that WriteCallback submits to
\* the stream holds only zero samples
C31_StoppedBackendSubmitsZeros ==
  (pulse.last.submitted /\ ~pulse.last.running /\ pulse.last.trunc_length > 0)
    => pulse.last.content = "zeros"

\* C32: a failed 6-channel connection is followed by one 2-channel 16-bit
\* attempt and PulseInit fails only if that one fails too (or the server
\* cannot be reached); after a successful PulseInit m_stereo, m_channels and
\* m_bytespersample are those of the connected stream, so that the frame
\* count of WriteCallback and the mixer call it makes fill exactly the bytes
\* it submits
C32_MembersAgreeWithStream ==
  /\ (Len(pulse.attempts) >= 1 /\ pulse.attempts[1].format.channels = SURROUND_CHANNELS
        /\ ~pulse.attempts[1].ok)
       => /\ Len(pulse.attempts) = 2
          /\ pulse.attempts[2].format = [channels |-> NC, bytespersample |-> SizeofS16]
          /\ ((pulse.init = "false") <=> ~pulse.attempts[2].ok)
  /\ pulse.init = "true"
       => /\ pulse.connected = pulse.attempts[Len(pulse.attempts)].format
          /\ pulse.attempts[Len(pulse.attempts)].ok
          /\ pulse.m_channels = pulse.connected.channels
          /\ pulse.m_bytespersample = pulse.connected.bytespersample
          /\ pulse.m_channels \in {NC, SURROUND_CHANNELS}
          /\ pulse.m_bytespersample \in {SizeofS16, SizeofFloat}
          /\ (pulse.m_stereo <=> (pulse.connected = [channels |-> NC, bytespersample |-> SizeofS16]))
          /\ pulse.last.frames
               = pulse.last.length \div (pulse.connected.channels * pulse.connected.bytespersample)
          /\ (pulse.last.submitted /\ pulse.last.running)
               => /\ pulse.last.call = (IF pulse.connected.channels = NC THEN "Mix" ELSE "MixSurround")
                  /\ pulse.last.mixed_bytes = pulse.last.trunc_length
C32_Witness ==
  /\ pulse.init = "true"
  /\ Len(pulse.attempts) = 2
  /\ pulse.last.submitted /\ pulse.last.running
  /\ pulse.last.frames > 1

\* ==== the volumes of a FIFO (Mixer.cpp 737-745, 846-850, Speaker.cpp) =====
\* speaker_pan is a multiple of 1/PanScale in -1 .. 1 (the pan setting / 100)
PanScale == 2
U8Max == 255
VOLUME_DIVISOR_PCM == 255
VOLUME_DIVISOR_ADPCM == 127
RegVolumes == {0, VOLUME_DIVISOR_ADPCM, VOLUME_DIVISOR_ADPCM + 1, U8Max - 1, U8Max}
SpeakerFormats == {"PCM", "ADPCM"}

\* volume_divisor of SpeakerData (89, 129, 138-142)
VolumeDivisor(format, reg_volume) ==
  Max(IF format = "PCM" THEN VOLUME_DIVISOR_PCM ELSE VOLUME_DIVISOR_ADPCM, reg_volume)

\* std::clamp(speaker_pan, -1.f, 1.f), pan in 1/PanScale
ClampPan(pan) == Max(0 - PanScale, Min(pan, PanScale))

\* u32(std::min(1.f -+ speaker_pan, 1.f) * volume) with
\* volume = reg_volume * 256 / volume_divisor; side is the signed pan
SpeakerVolumeUnclamped(side, reg_volume, divisor) ==
  (Min(PanScale - side, PanScale) * reg_volume * 256) \div (PanScale * divisor)
SpeakerVolume(side, reg_volume, divisor) ==
  Min((Min(PanScale - side, PanScale) * reg_volume * 256) \div (PanScale * divisor), U8Max)

\* MixerFifo::SetVolume(lVolume, rVolume) on FIFO f
FifoSetVolume(f, lVolume, rVolume) ==
  [stored |-> [volumes.stored EXCEPT ![f] = <<SetVolume(lVolume), SetVolume(rVolume)>>],
   last |-> [fifo |-> f, l |-> lVolume, r |-> rVolume]]

\* SpeakerLogic::SpeakerData(data, length, speaker_pan) of a speaker whose
\* registers hold format, volume and a sample rate; enable is
\* SConfig::m_WiimoteEnableSpeaker
SpeakerData(format, reg_volume, pan, length, sample_rate, enable) ==
  LET divisor == VolumeDivisor(format, reg_volume)
      speaker_pan == ClampPan(pan)
      l_volume == SpeakerVolume(speaker_pan, reg_volume, divisor)
      r_volume == SpeakerVolume(0 - speaker_pan, reg_volume, divisor)
      sample_length == IF format = "PCM" THEN length ELSE length * 2
  IN  IF enable
      THEN /\ volumes' = FifoSetVolume("wiimote", l_volume, r_volume)
           /\ PushSpeakerSamples(sample_length, sample_rate)
      ELSE UNCHANGED vars

\* Mixer::SetStreamingVolume(lVolume, rVolume)
SetStreamingVolume(lVolume, rVolume) ==
  /\ volumes' = FifoSetVolume("streaming", lVolume, rVolume)
  /\ UNCHANGED <<fifo_vars, m_target_speed, conv_saturates, fifo_under_test, last_mix,
                 mixer_vars, callback_vars, osd_vars, thread_vars,
                 history, cubeb, wave, mixed, policy, speaker, pulse, ciface>>

StreamingVolumes == {0, U8Max}

NextVolume ==
  \/ \E format \in SpeakerFormats, reg_volume \in RegVolumes, pan \in (0 - PanScale) .. PanScale,
        sample_rate \in InRates, enable \in BOOLEAN :
       SpeakerData(format, reg_volume, pan, 1, sample_rate, enable)
  \/ \E l, r \in StreamingVolumes : SetStreamingVolume(l, r)

SpecVolume == InitSpeakerSpec /\ [][NextVolume]_vars

\* C33: the volumes stored in a FIFO are always within 0..256: SetVolume
\* stores v + (v >> 7) for each channel, the remote-speaker path passes values
\* clamped to 0..255, full volume 255 is stored as 256 and nothing above it
C33_StoredVolumesWithinUnity ==
  /\ \A f \in Fifos : \A ch \in 1 .. NC : volumes.stored[f][ch] \in 0 .. UnityVolume
  /\ volumes.last.fifo # "none"
       => /\ volumes.last.l \in 0 .. U8Max
          /\ volumes.last.r \in 0 .. U8Max
          /\ volumes.stored[volumes.last.fifo]
               = <<volumes.last.l + volumes.last.l \div 128,
                   volumes.last.r + volumes.last.r \div 128>>
          /\ (volumes.last.l = U8Max) => volumes.stored[volumes.last.fifo][1] = UnityVolume
          /\ (volumes.last.r = U8Max) => volumes.stored[volumes.last.fifo][2] = UnityVolume
C33_Witness ==
  /\ volumes.last.fifo = "wiimote"
  /\ volumes.last.l = U8Max
  /\ volumes.last.r \in 1 .. (VOLUME_DIVISOR_ADPCM + 1)
  /\ volumes.stored["wiimote"][1] = UnityVolume
  /\ speaker.last.kind = "speaker"

\* ==== the value Mixer::Mix returns ========================================
\* C34: every Mixer::Mix(out, n) call with n > 0 made while not paused
\* returns n, whatever the FIFOs hold and whether or not frames of the
\* stretcher are drained in that call
C34_MixReturnsRequest ==
  (policy.calls > 0 /\ policy.last.ran /\ policy.last.n > 0) => mix_return = policy.last.n

\* ==== what one MixerFifo::Mix call delivers and keeps ======================
\* C35: when stretching, MixerFifo::Mix(buf, m, true) with m no larger than
\* the value AvailableSamples() returned just before makes all m frames from
\* data of the ring: it returns m, pads nothing and does not reset fract,
\* whatever the rate ratio and fract are
C35_AvailableSamplesAreMixed ==
  [][\A m \in 1 .. MaxN :
       (FifoMix(m, TRUE, FD) /\ m <= AvailableSamples(fifo_under_test, FD))
         => /\ MixerFifoMix(fifo_under_test, m, TRUE, FD).actual = m
            /\ MixerFifoMix(fifo_under_test, m, TRUE, FD).pad = 0
            /\ m_fract'[fifo_under_test] # NoFract]_vars

\* C36: the two saved last-output samples hold the left and the right sample
\* of the last frame made; a MixerFifo::Mix call that makes no frame leaves
\* both as they were
C36_LastSamplesKeptPerChannel ==
  [][\A c \in MixCalls :
       FifoMix(c.n, c.stretching, c.speed)
         => m_last_output_samples'[fifo_under_test] =
              (IF MixerFifoMix(fifo_under_test, c.n, c.stretching, c.speed).actual > 0
               THEN <<"L", "R">> ELSE m_last_output_samples[fifo_under_test])]_vars

\* ==== the life of the cubeb stream ========================================
\* C37: between the calls on the backend m_running is true exactly when a
\* stream has been initialised and started and not yet destroyed, and no stop
\* or destroy is ever applied to a stream already destroyed, the destructor
\* after a SetRunning(false) whose stop failed included
C37_RunningMeansLiveStream ==
  /\ cubeb.pc \in {"idle", "destroyed"} => (cubeb.m_running <=> cubeb.m_stream = "started")
  /\ ~cubeb.stale

\* ==== the device list of the ControllerInterface ===========================
\* one host thread calls Initialize and Shutdown, one hotplug thread of a
\* backend calls AddDevice and RemoveDevice; a method that takes
\* m_devices_mutex for one block is one step from the lock to the unlock
MaxDevices == 2
Devices == 1 .. MaxDevices

not_ciface_vars == <<fifo_vars, m_target_speed, conv_saturates, fifo_under_test, last_mix, history, cubeb, wave, mixed, policy, speaker, pulse, volumes, mixer_vars, callback_vars, osd_vars, thread_vars>>

\* Initialize up to the lock of m_devices_mutex (55-67)
InitializeEnter ==
  /\ ciface.pc = "idle"
  /\ ~ciface.m_is_init
  /\ ciface' = [ciface EXCEPT !.m_is_init = TRUE, !.pc = "initialize_lock",
                              !.shut_down = FALSE]
  /\ UNCHANGED not_ciface_vars

InitializeLock ==
  /\ ciface.pc = "initialize_lock"
  /\ ciface.m_devices_mutex = "free"
  /\ ciface' = [ciface EXCEPT !.m_devices_mutex = "host", !.pc = "initialize_refresh"]
  /\ UNCHANGED not_ciface_vars

\* the backends are initialised (their hotplug threads start), RefreshDevices
\* clears the list and the backends that populate at once add found; the
\* mutex is released (69-106, 154-211)
InitializeRefresh(found) ==
  /\ ciface.pc = "initialize_refresh"
  /\ ciface' = [ciface EXCEPT !.m_devices = found, !.m_devices_mutex = "free",
                              !.pc = "idle",
                              !.hotplug = IF @ = "stopped" THEN "idle" ELSE @]
  /\ UNCHANGED not_ciface_vars

\* Shutdown up to its first ClearDevices (227-235)
ShutdownEnter ==
  /\ ciface.pc = "idle"
  /\ ciface.m_is_init
  /\ ciface' = [ciface EXCEPT !.m_is_init = FALSE, !.pc = "shutdown_clear"]
  /\ UNCHANGED not_ciface_vars

\* ClearDevices under the mutex (272-291)
ClearDevices(then) ==
  /\ ciface.m_devices_mutex = "free"
  /\ ciface' = [ciface EXCEPT !.m_devices = {}, !.pc = then,
                              !.shut_down = (then = "idle")]
  /\ UNCHANGED not_ciface_vars

ShutdownClear ==
  /\ ciface.pc = "shutdown_clear"
  /\ ClearDevices("shutdown_deinit")

\* the DeInit calls of the backends (240-261); joins tells whether the
\* backend of the hotplug thread stops and joins its thread there, which the
\* backends shut down in other places do not (263-267)
ShutdownDeInit(joins) ==
  /\ ciface.pc = "shutdown_deinit"
  /\ joins => ciface.hotplug = "idle"
  /\ ciface' = [ciface EXCEPT !.pc = "shutdown_last_clear",
                              !.hotplug = IF joins THEN "stopped" ELSE @]
  /\ UNCHANGED not_ciface_vars

\* the last ClearDevices of Shutdown and its return (268)
ShutdownLeave ==
  /\ ciface.pc = "shutdown_last_clear"
  /\ ClearDevices("idle")

\* AddDevice and RemoveDevice up to the lock: the test of m_is_init (296-297,
\* 350-351); a call that finds it false returns at once
HotplugEnter(op, device) ==
  /\ ciface.hotplug = "idle"
  /\ ciface.m_is_init
  /\ ciface' = [ciface EXCEPT !.hotplug = op, !.device = device]
  /\ UNCHANGED not_ciface_vars

\* the block under the mutex of AddDevice (299-342) or RemoveDevice (354-367)
HotplugLocked ==
  /\ ciface.hotplug \in {"add", "remove"}
  /\ ciface.m_devices_mutex = "free"
  /\ ciface' = [ciface EXCEPT
                  !.m_devices = IF ciface.hotplug = "add" THEN @ \cup {ciface.device}
                                ELSE @ \ {ciface.device},
                  !.hotplug = "idle"]
  /\ UNCHANGED not_ciface_vars

NextInterface ==
  \/ InitializeEnter
  \/ InitializeLock
  \/ \E found \in SUBSET Devices : InitializeRefresh(found)
  \/ ShutdownEnter
  \/ ShutdownClear
  \/ \E joins \in BOOLEAN : ShutdownDeInit(joins)
  \/ ShutdownLeave
  \/ \E op \in {"add", "remove"}, device \in Devices : HotplugEnter(op, device)
  \/ HotplugLocked

SpecInterface == InitPulseSpec /\ [][NextInterface]_vars

\* C38: once Shutdown has returned the device list is empty and stays empty
\* until Initialize is called again, however the AddDevice calls of the
\* hotplug threads interleave with Shutdown
C38_NoDeviceAfterShutdown ==
  ciface.shut_down => ciface.m_devices = {}

====
